---- MODULE Spec2Model ----
(***************************************************************************)
(* Model of the Express API server (server/index.ts), its datastore-client *)
(* module (server/lib/prisma.ts) and the schema engine (Zod 4) rules the   *)
(* server declares.                                                        *)
(*                                                                         *)
(* A string is a sequence of pieces: one-character pieces where the        *)
(* characters matter (PORT, DATABASE_URL, request parameters), whole words *)
(* or phrases elsewhere (NODE_ENV, messages); <<>> is the empty string.    *)
(* An environment variable is a record [set, val]: set = FALSE is          *)
(* `undefined` (variable absent).                                          *)
(***************************************************************************)
EXTENDS Integers, Sequences, FiniteSets, TLC

\* ------------------------------------------------------------------ bounds
\* longest PORT string generated over PortChars
MaxPortLen == 2
\* longest tail generated after each DATABASE_URL prefix
MaxUrlTail == 2
\* number of HTTP requests one run of the server receives
MaxRequests == 2
\* number of writes to process.env after startup that depart from the
\* validated configuration
MaxEnvWrites == 1
\* number of times lib/prisma.ts is evaluated in one process
MaxEvaluations == 3
\* number of runs of the seed script against one datastore
MaxSeedRuns == 3

\* ------------------------------------------------------- strings, values
Undefined == [set |-> FALSE, val |-> <<>>]

Str(s) == [set |-> TRUE, val |-> s]

Digits == {"0", "1", "2", "3", "4", "5", "6", "7", "8", "9"}

DigitVal(c) == CASE c = "0" -> 0 [] c = "1" -> 1 [] c = "2" -> 2 [] c = "3" -> 3
                 [] c = "4" -> 4 [] c = "5" -> 5 [] c = "6" -> 6 [] c = "7" -> 7
                 [] c = "8" -> 8 [] c = "9" -> 9

\* characters the regex atom `.` does not match (no `s` flag)
LineTerminators == {"\n", "\r"}

\* white space String.prototype.trim / parseInt skip
WhiteSpace == {" ", "\t", "\n", "\r"}

SeqsUpTo(S, n) == UNION {[1..k -> S] : k \in 0..n}

\* /^\d+$/.test(s)
IsDigitString(s) == Len(s) >= 1 /\ \A i \in 1..Len(s) : s[i] \in Digits

\* Number(s) for a digit string (the only strings the schema transforms)
RECURSIVE Number(_)
Number(s) == IF Len(s) = 0 THEN 0
             ELSE 10 * Number(SubSeq(s, 1, Len(s) - 1)) + DigitVal(s[Len(s)])

\* s.startsWith(p)
StartsWith(s, p) == Len(s) >= Len(p) /\ SubSeq(s, 1, Len(p)) = p

MysqlPrefix == <<"m", "y", "s", "q", "l", ":", "/", "/">>

\* /^mysql:\/\/.+/.test(s): the prefix, then at least one character matched
\* by `.`; the match is anchored, so the character right after the prefix
\* must be one `.` matches
MatchesMysqlRegex(s) ==
    /\ StartsWith(s, MysqlPrefix)
    /\ Len(s) > Len(MysqlPrefix)
    /\ s[Len(MysqlPrefix) + 1] \notin LineTerminators

\* the enum of index.ts:19; a value is the one-word string <<word>>
NodeEnvs == {<<"development">>, <<"production">>, <<"test">>}

\* ------------------------------------------------------ Zod 4 env schema
Issue(path, code, message) == [path |-> path, code |-> code, message |-> message]

ParseOk(v) == [issues |-> <<>>, ok |-> TRUE, value |-> v]

ParseFail(iss) == [issues |-> iss, ok |-> FALSE, value |-> 0]

\* the PORT rule with the upper limit of the refinement off by one
envSchemaPORT_UpperExclusive(v) ==
    IF ~v.set
    THEN ParseFail(<<Issue("PORT", "invalid_type",
                           "Invalid input: expected string, received undefined")>>)
    ELSE LET minIss == IF Len(v.val) >= 1 THEN <<>>
                       ELSE <<Issue("PORT", "too_small", "PORT is required")>>
             reIss  == IF IsDigitString(v.val) THEN <<>>
                       ELSE <<Issue("PORT", "invalid_format",
                                    "PORT must be a valid port number")>>
             strIss == minIss \o reIss
         IN IF strIss # <<>> THEN ParseFail(strIss)
            ELSE LET port == Number(v.val)
                 IN IF port > 0 /\ port < 65535 THEN ParseOk(port)
                    ELSE ParseFail(<<Issue("PORT", "custom",
                                           "PORT must be between 1 and 65535")>>)

\* PORT: z.string().min(1).regex(/^\d+$/).transform(Number).refine(0<n<65536)
\* z.string() on undefined is one invalid_type issue and aborts; the string
\* checks min and regex do not abort each other, so both can report; the
\* transform and the refinement run only when the string had no issue.
envSchemaPORT(v) ==
    IF ~v.set
    THEN ParseFail(<<Issue("PORT", "invalid_type",
                           "Invalid input: expected string, received undefined")>>)
    ELSE LET minIss == IF Len(v.val) >= 1 THEN <<>>
                       ELSE <<Issue("PORT", "too_small", "PORT is required")>>
             reIss  == IF IsDigitString(v.val) THEN <<>>
                       ELSE <<Issue("PORT", "invalid_format",
                                    "PORT must be a valid port number")>>
             strIss == minIss \o reIss
         IN IF strIss # <<>> THEN ParseFail(strIss)
            ELSE LET port == Number(v.val)
                 IN IF port > 0 /\ port < 65536 THEN ParseOk(port)
                    ELSE ParseFail(<<Issue("PORT", "custom",
                                           "PORT must be between 1 and 65535")>>)

\* NODE_ENV: z.enum(['development','production','test'], {message})
envSchemaNODE_ENV(v) ==
    IF v.set /\ v.val \in NodeEnvs THEN ParseOk(v.val)
    ELSE ParseFail(<<Issue("NODE_ENV", "invalid_value",
                           "NODE_ENV must be one of: development, production, test")>>)

\* DATABASE_URL: z.string().min(1).regex(/^mysql:\/\/.+/)
envSchemaDATABASE_URL(v) ==
    IF ~v.set
    THEN ParseFail(<<Issue("DATABASE_URL", "invalid_type",
                           "Invalid input: expected string, received undefined")>>)
    ELSE LET minIss == IF Len(v.val) >= 1 THEN <<>>
                       ELSE <<Issue("DATABASE_URL", "too_small",
                                    "DATABASE_URL is required")>>
             reIss  == IF MatchesMysqlRegex(v.val) THEN <<>>
                       ELSE <<Issue("DATABASE_URL", "invalid_format",
                                    "DATABASE_URL must be a valid MySQL connection string (mysql://...)")>>
             strIss == minIss \o reIss
         IN IF strIss # <<>> THEN ParseFail(strIss) ELSE ParseOk(v.val)

\* an object parse that stops at the first key with an issue
envSchemaShortCircuit(e) ==
    LET p == envSchemaPORT(e.PORT)
        n == envSchemaNODE_ENV(e.NODE_ENV)
        d == envSchemaDATABASE_URL(e.DATABASE_URL)
        iss == IF p.issues # <<>> THEN p.issues
               ELSE IF n.issues # <<>> THEN n.issues ELSE d.issues
    IN IF iss = <<>>
       THEN [ok |-> TRUE, issues |-> <<>>,
             value |-> [PORT |-> p.value, NODE_ENV |-> n.value,
                        DATABASE_URL |-> d.value]]
       ELSE [ok |-> FALSE, issues |-> iss, value |-> 0]

\* z.object({PORT, NODE_ENV, DATABASE_URL}).parse(e): every key is parsed,
\* in declaration order, and the issues are concatenated
envSchema(e) ==
    LET p == envSchemaPORT(e.PORT)
        n == envSchemaNODE_ENV(e.NODE_ENV)
        d == envSchemaDATABASE_URL(e.DATABASE_URL)
        iss == p.issues \o n.issues \o d.issues
    IN IF iss = <<>>
       THEN [ok |-> TRUE, issues |-> <<>>,
             value |-> [PORT |-> p.value, NODE_ENV |-> n.value,
                        DATABASE_URL |-> d.value]]
       ELSE [ok |-> FALSE, issues |-> iss, value |-> 0]

\* ----------------------------------------------------------------- state
VARIABLES
    processEnv,    \* process.env: PORT, NODE_ENV, DATABASE_URL
    dotenvFile,    \* the variables the file read by dotenv.config defines
    pc,            \* position of the module's top-level code
    env,           \* const env = validateEnvironment() (index.ts:56)
    zodIssues,     \* error.issues of the ZodError caught by validateEnvironment
    stderr,        \* lines written with console.error during startup
    exitCode,      \* process exit status, -1 while the process runs
    listenPort,    \* port given to app.listen, 0 while not listening
    envWrites,     \* writes made to process.env after startup, restoring ones included
    queryWritable, \* whether the framework lets a middleware assign req.query
    reqs,          \* the HTTP requests of this run
    users,         \* number of rows of the users table (ids 1..users)
    uuids,         \* number of crypto.randomUUID() calls made
    vite,          \* the process that evaluates the frontend's vite.config.ts
    prismaModule,  \* lib/prisma.ts: the clients constructed, globalThis.prisma, the exports
    page,          \* the state of the mounted ConnectionPage component and its calls
    seed           \* the connections table and the runs of the seed script

startVars == <<dotenvFile, pc, env, zodIssues, stderr, exitCode, listenPort>>

serverVars == <<reqs, users, uuids>>

vars == <<processEnv, dotenvFile, pc, env, zodIssues, stderr, exitCode, listenPort,
          envWrites, queryWritable, reqs, users, uuids, vite, prismaModule, page, seed>>

\* what the server's request handling never touches
peerVars == <<vite, prismaModule, page, seed>>

EnvNames == <<"PORT", "NODE_ENV", "DATABASE_URL">>

NoEnv == [ok |-> FALSE]

\* const PORT = env.PORT; const NODE_ENV = env.NODE_ENV (index.ts:57-58)
PORT == env.PORT

NODE_ENV == env.NODE_ENV

Line(kind, field, message) == [kind |-> kind, field |-> field, message |-> message]

\* the forEach of index.ts:43-45: one line per issue, in the issues' order
IssueLines(iss) == [i \in 1..Len(iss) |-> Line("issue", iss[i].path, iss[i].message)]

\* a report that prints the issues after the pointer to the template
FailureReport_IssuesLast(iss) ==
    <<Line("header", "", "Environment variable validation failed:"),
      Line("blank", "", ""),
      Line("blank", "", ""),
      Line("guidance", "", "Please check your .env file and ensure all required variables are set correctly."),
      Line("template", "", "See env.template for reference.")>>
    \o IssueLines(iss)

\* the console.error calls of the catch branch, index.ts:41-48; the header
\* line starts with a cross-mark pictograph, left out here
FailureReport(iss) ==
    <<Line("header", "", "Environment variable validation failed:"),
      Line("blank", "", "")>>
    \o IssueLines(iss)
    \o <<Line("blank", "", ""),
         Line("guidance", "", "Please check your .env file and ensure all required variables are set correctly."),
         Line("template", "", "See env.template for reference.")>>

\* the frontend process before vite.config.ts is evaluated: env is what
\* loadEnv returns, errors the validator's list, validated its result,
\* port the port of the dev server (0 while there is none)
ViteProcess(e) == [pc |-> "config", env |-> e, errors |-> <<>>, stderr |-> <<>>,
                   exitCode |-> -1, validated |-> <<>>, port |-> 0]

NoVite == ViteProcess(<<>>)

\* lib/prisma.ts before its first evaluation: clients holds the log option of
\* each PrismaClient constructed, global is globalThis.prisma (0 while
\* undefined), exports the handle each evaluation exported
NoPrisma == [clients |-> <<>>, global |-> 0, exports |-> <<>>]

\* calls of fetchConnection one mount can start: React runs the mount effect
\* once, and once more under StrictMode in a development build
CallIds == {1, 2}

\* a fetchConnection call: its position and what its fetch gave
Call(stage, response) == [stage |-> stage, response |-> response]

NoResponse == [kind |-> "none", text |-> <<>>]

\* ConnectionPage before it is mounted: the three useState values
\* (ConnectionPage.tsx:17-19) and the fetchConnection calls
NoPage == [mounted |-> FALSE, connection |-> Undefined, loading |-> TRUE,
           error |-> Undefined, calls |-> [c \in CallIds |-> Call("idle", NoResponse)]]

SeedRuns == 1..MaxSeedRuns

\* a run of prisma/seed.ts that has not started
NoRun == [pc |-> "none", databaseUrl |-> Undefined, exitCode |-> -1]

\* the connections table (each record named by the run that created it, 0
\* for a record that was not created by the seed) and the seed runs
NoSeed == [records |-> <<>>, runs |-> [i \in SeedRuns |-> NoRun]]

\* a request that has not arrived yet
\* sent: the responses written; handlerRan: the route handler was invoked;
\* ormCalls: datastore calls issued; threw: a datastore call of the handler
\* rejected; errorHandlerRan: the global error handler was invoked;
\* pending: datastore calls not settled yet; got: the handler's locals;
\* silent: the datastore never answers the probe of this request;
\* readAt: the value of envWrites when the handler read process.env;
\* caught: the error given to logError
NoError == [name |-> "none", message |-> <<>>]

NoRequest == [route |-> "none", stage |-> "none", input |-> <<>>, sent |-> <<>>,
              handlerRan |-> FALSE, ormCalls |-> 0, threw |-> FALSE,
              errorHandlerRan |-> FALSE, pending |-> {}, got |-> <<>>,
              silent |-> FALSE, readAt |-> 0, caught |-> NoError]

RequestIds == 1..MaxRequests

\* requests are numbered in the order the server receives them
Arrives(r) == /\ reqs[r].stage = "none"
              /\ \A q \in RequestIds : q < r => reqs[q].stage # "none"

\* ---------------------------------------------------------------- inputs
PortChars == {"0", "1", "a"}

PortExtras == { <<"8", "0", "8", "0">>, <<"0", "8", "0">>,
                <<"6", "5", "5", "3", "5">>, <<"6", "5", "5", "3", "6">>,
                <<"8", "0", "a">>, <<" ", "8", "0">>, <<"+", "8", "0">>,
                <<"-", "1">>, <<"a", "b", "c">>, <<"8", "0", "\n">> }

PortValues == {Undefined} \cup {Str(s) : s \in SeqsUpTo(PortChars, MaxPortLen) \cup PortExtras}

NodeEnvValues == {Undefined} \cup {Str(s) : s \in NodeEnvs \cup {<<>>, <<"staging">>, <<"Production">>}}

PostgresPrefix == <<"p", "o", "s", "t", "g", "r", "e", "s", ":", "/", "/">>

UrlPrefixes == { <<>>, MysqlPrefix, PostgresPrefix, <<"m", "y", "s", "q", "l", ":", "/">>,
                 <<"x">> \o MysqlPrefix }

UrlTailChars == {"h", "\n"}

UrlValues == {Undefined} \cup
             {Str(p \o t) : p \in UrlPrefixes, t \in SeqsUpTo(UrlTailChars, MaxUrlTail)}

EnvStates == [PORT : PortValues, NODE_ENV : NodeEnvValues, DATABASE_URL : UrlValues]

\* the environments a server process is started with
BootPortValues == {Undefined, Str(<<>>), Str(<<"8", "0", "8", "0">>), Str(<<"8", "0", "a">>)}

BootNodeEnvValues == {Undefined, Str(<<>>), Str(<<"development">>), Str(<<"production">>),
                      Str(<<"test">>), Str(<<"staging">>)}

BootUrlValues == {Undefined, Str(<<>>), Str(MysqlPrefix), Str(MysqlPrefix \o <<"h">>),
                  Str(PostgresPrefix \o <<"h">>)}

BootEnvStates == [PORT : BootPortValues, NODE_ENV : BootNodeEnvValues,
                  DATABASE_URL : BootUrlValues]

EmptyDotenv == [PORT |-> Undefined, NODE_ENV |-> Undefined, DATABASE_URL |-> Undefined]

DotenvFiles == {EmptyDotenv,
                [PORT |-> Str(<<"3", "0", "0", "1">>), NODE_ENV |-> Str(<<"test">>),
                 DATABASE_URL |-> Str(MysqlPrefix \o <<"h">>)]}

\* --------------------------------------------------------------- startup
\* a module that caches the client in development mode only
evaluatePrismaModule_CacheInDevelopmentOnly(m, nodeEnv) ==
    LET handle == IF m.global # 0 THEN m.global ELSE Len(m.clients) + 1
    IN [clients |-> IF m.global # 0 THEN m.clients
                    ELSE Append(m.clients,
                                IF nodeEnv = <<"development">>
                                THEN <<"query", "error", "warn">> ELSE <<"error">>),
        global |-> IF nodeEnv = <<"development">> THEN handle ELSE m.global,
        exports |-> Append(m.exports, handle)]

\* lib/prisma.ts:17-29: the exported handle is globalThis.prisma when that is
\* set and a new PrismaClient otherwise; it is stored on globalThis unless
\* NODE_ENV is 'production'. A client is named by its rank of construction.
evaluatePrismaModule(m, nodeEnv) ==
    LET handle == IF m.global # 0 THEN m.global ELSE Len(m.clients) + 1
    IN [clients |-> IF m.global # 0 THEN m.clients
                    ELSE Append(m.clients,
                                IF nodeEnv = <<"development">>
                                THEN <<"query", "error", "warn">> ELSE <<"error">>),
        global |-> IF nodeEnv # <<"production">> THEN handle ELSE m.global,
        exports |-> Append(m.exports, handle)]

\* import prisma from './lib/prisma.ts': the module body runs before any
\* statement of index.ts; it throws when DATABASE_URL or NODE_ENV is falsy
\* (lib/prisma.ts:4-10), which ends the process with an uncaught exception
importPrisma ==
    /\ pc = "import"
    /\ IF ~processEnv.DATABASE_URL.set \/ processEnv.DATABASE_URL.val = <<>>
       THEN /\ stderr' = stderr \o <<Line("uncaught", "DATABASE_URL",
                     "DATABASE_URL environment variable is required. Please set it in your .env file.")>>
            /\ exitCode' = 1
            /\ pc' = "crashed"
       ELSE IF ~processEnv.NODE_ENV.set \/ processEnv.NODE_ENV.val = <<>>
       THEN /\ stderr' = stderr \o <<Line("uncaught", "NODE_ENV",
                     "NODE_ENV environment variable is required. Please set it in your .env file.")>>
            /\ exitCode' = 1
            /\ pc' = "crashed"
       ELSE /\ pc' = "dotenv"
            /\ UNCHANGED <<stderr, exitCode>>
    /\ prismaModule' = IF pc' = "dotenv"
                       THEN evaluatePrismaModule(prismaModule, processEnv.NODE_ENV.val)
                       ELSE prismaModule
    /\ UNCHANGED <<vite, page, seed, processEnv, dotenvFile, env, zodIssues, listenPort,
                   envWrites, queryWritable, serverVars>>

\* lib/prisma.ts is evaluated again in the same process (hot reload): the
\* environment passed the two checks when the process started
reloadPrisma ==
    /\ pc = "dotenv"
    /\ Len(prismaModule.exports) < MaxEvaluations
    /\ prismaModule' = evaluatePrismaModule(prismaModule, processEnv.NODE_ENV.val)
    /\ UNCHANGED <<vite, page, seed, processEnv, startVars, envWrites, queryWritable,
                   serverVars>>

\* dotenv.config({ path: '../.env' }) (index.ts:9): a variable of the file
\* is set only when process.env does not have it already
dotenvConfig ==
    /\ pc = "dotenv"
    /\ processEnv' = [n \in DOMAIN processEnv |->
                        IF processEnv[n].set THEN processEnv[n] ELSE dotenvFile[n]]
    /\ pc' = "validate"
    /\ UNCHANGED <<peerVars, dotenvFile, env, zodIssues, stderr, exitCode, listenPort, envWrites,
                   queryWritable, serverVars>>

\* a validator that reports the failure and carries on with defaults
validateEnvironment_DefaultsOnFailure ==
    /\ pc = "validate"
    /\ LET r == envSchema(processEnv)
       IN IF r.ok
          THEN /\ env' = [ok |-> TRUE, PORT |-> r.value.PORT,
                          NODE_ENV |-> r.value.NODE_ENV,
                          DATABASE_URL |-> r.value.DATABASE_URL]
               /\ pc' = "configured"
               /\ UNCHANGED <<zodIssues, stderr, exitCode>>
          ELSE /\ zodIssues' = r.issues
               /\ stderr' = stderr \o FailureReport(r.issues)
               /\ env' = [ok |-> TRUE, PORT |-> 3000, NODE_ENV |-> <<"development">>,
                          DATABASE_URL |-> <<>>]
               /\ pc' = "configured"
               /\ UNCHANGED exitCode
    /\ UNCHANGED <<peerVars, processEnv, dotenvFile, listenPort, envWrites, queryWritable, serverVars>>

\* validateEnvironment (index.ts:29-53) and the assignment of its result
\* (index.ts:56): on success the typed object is returned; on a ZodError the
\* report is written and process.exit(1) ends the process
validateEnvironment ==
    /\ pc = "validate"
    /\ LET r == envSchema(processEnv)
       IN IF r.ok
          THEN /\ env' = [ok |-> TRUE, PORT |-> r.value.PORT,
                          NODE_ENV |-> r.value.NODE_ENV,
                          DATABASE_URL |-> r.value.DATABASE_URL]
               /\ pc' = "configured"
               /\ UNCHANGED <<zodIssues, stderr, exitCode>>
          ELSE /\ zodIssues' = r.issues
               /\ stderr' = stderr \o FailureReport(r.issues)
               /\ exitCode' = 1
               /\ pc' = "exited"
               /\ UNCHANGED env
    /\ UNCHANGED <<peerVars, processEnv, dotenvFile, listenPort, envWrites, queryWritable, serverVars>>

\* app.listen(PORT, ...) (index.ts:386-389), reached after the routes are
\* registered
listen ==
    /\ pc = "configured"
    /\ listenPort' = PORT
    /\ pc' = "listening"
    /\ UNCHANGED <<peerVars, processEnv, dotenvFile, env, zodIssues, stderr, exitCode, envWrites,
                   queryWritable, serverVars>>

\* validateEnvironment applied to every environment state
InitValidator ==
    /\ processEnv \in EnvStates
    /\ dotenvFile = EmptyDotenv
    /\ pc = "validate"
    /\ env = NoEnv
    /\ zodIssues = <<>>
    /\ stderr = <<>>
    /\ exitCode = -1
    /\ listenPort = 0
    /\ envWrites = 0
    /\ queryWritable = FALSE
    /\ reqs = [r \in RequestIds |-> NoRequest]
    /\ users = 0
    /\ uuids = 0
    /\ vite = NoVite
    /\ prismaModule = NoPrisma
    /\ page = NoPage
    /\ seed = NoSeed

NextValidator == validateEnvironment

SpecValidator == InitValidator /\ [][NextValidator]_vars

\* ------------------------------------------------------------ GET /health
\* JavaScript truthiness of process.env[name]: undefined and '' are falsy
Truthy(v) == v.set /\ v.val # <<>>

RECURSIVE SkipWhiteSpace(_)
SkipWhiteSpace(s) == IF Len(s) > 0 /\ Head(s) \in WhiteSpace
                     THEN SkipWhiteSpace(Tail(s)) ELSE s

RECURSIVE DigitPrefix(_)
DigitPrefix(s) == IF Len(s) > 0 /\ Head(s) \in Digits
                  THEN <<Head(s)>> \o DigitPrefix(Tail(s)) ELSE <<>>

\* parseInt(s, 10): leading white space is skipped, a sign is allowed, the
\* longest prefix of digits is converted and the rest ignored; NaN when
\* there is no digit
parseInt(s) ==
    LET t == SkipWhiteSpace(s)
        signed == Len(t) > 0 /\ Head(t) \in {"+", "-"}
        d == DigitPrefix(IF signed THEN Tail(t) ELSE t)
    IN IF d = <<>> THEN [nan |-> TRUE, val |-> 0]
       ELSE [nan |-> FALSE,
             val |-> IF signed /\ Head(t) = "-" THEN 0 - Number(d) ELSE Number(d)]

\* Array.prototype.join on an array of pieces
RECURSIVE Join(_, _)
Join(parts, sep) == IF Len(parts) = 0 THEN <<>>
                    ELSE IF Len(parts) = 1 THEN <<parts[1]>>
                    ELSE <<parts[1], sep>> \o Join(Tail(parts), sep)

\* Array.prototype.join on an array of strings
RECURSIVE JoinStrings(_, _)
JoinStrings(strs, sep) == IF Len(strs) = 0 THEN <<>>
                          ELSE IF Len(strs) = 1 THEN strs[1]
                          ELSE strs[1] \o <<sep>> \o JoinStrings(Tail(strs), sep)

\* a configuration check that validates a setting whether it is set or not
checkConfiguration_InvalidAlsoWhenMissing(e) ==
    LET missingVars == SelectSeq(EnvNames, LAMBDA n : ~Truthy(e[n]))
        invNodeEnv == IF e.NODE_ENV.val \notin NodeEnvs
                      THEN <<"NODE_ENV (must be development, production, or test)">>
                      ELSE <<>>
        port == parseInt(e.PORT.val)
        invPort == IF port.nan \/ port.val < 1 \/ port.val > 65535
                   THEN <<"PORT (must be between 1 and 65535)">> ELSE <<>>
        invUrl == IF ~StartsWith(e.DATABASE_URL.val, MysqlPrefix)
                  THEN <<"DATABASE_URL (must start with mysql://)">> ELSE <<>>
        invalidVars == invNodeEnv \o invPort \o invUrl
        errorMessages ==
            (IF Len(missingVars) > 0
             THEN << <<"Missing: ">> \o Join(missingVars, ", ") >> ELSE <<>>)
            \o (IF Len(invalidVars) > 0
                THEN << <<"Invalid: ">> \o Join(invalidVars, ", ") >> ELSE <<>>)
    IN IF Len(missingVars) > 0 \/ Len(invalidVars) > 0
       THEN [status |-> "error", message |-> JoinStrings(errorMessages, "; "),
             missing |-> missingVars]
       ELSE [status |-> "ok",
             message |-> <<"All required environment variables are configured">>]

\* the configuration check of the handler (index.ts:172-214) on process.env
checkConfiguration(e) ==
    LET missingVars == SelectSeq(EnvNames, LAMBDA n : ~Truthy(e[n]))
        invNodeEnv == IF Truthy(e.NODE_ENV) /\ e.NODE_ENV.val \notin NodeEnvs
                      THEN <<"NODE_ENV (must be development, production, or test)">>
                      ELSE <<>>
        port == parseInt(e.PORT.val)
        invPort == IF Truthy(e.PORT) /\ (port.nan \/ port.val < 1 \/ port.val > 65535)
                   THEN <<"PORT (must be between 1 and 65535)">> ELSE <<>>
        invUrl == IF Truthy(e.DATABASE_URL) /\ ~StartsWith(e.DATABASE_URL.val, MysqlPrefix)
                  THEN <<"DATABASE_URL (must start with mysql://)">> ELSE <<>>
        invalidVars == invNodeEnv \o invPort \o invUrl
        errorMessages ==
            (IF Len(missingVars) > 0
             THEN << <<"Missing: ">> \o Join(missingVars, ", ") >> ELSE <<>>)
            \o (IF Len(invalidVars) > 0
                THEN << <<"Invalid: ">> \o Join(invalidVars, ", ") >> ELSE <<>>)
    IN IF Len(missingVars) > 0 \/ Len(invalidVars) > 0
       THEN [status |-> "error", message |-> JoinStrings(errorMessages, "; "),
             missing |-> missingVars]
       ELSE [status |-> "ok",
             message |-> <<"All required environment variables are configured">>]

\* what `await prisma.$queryRaw` can do once it settles: resolve, reject
\* with an Error (whose message may be empty) or reject with a non-Error
ProbeOutcomes == {[kind |-> "ok", message |-> <<>>],
                  [kind |-> "Error", message |-> <<"Can't reach database server">>],
                  [kind |-> "Error", message |-> <<>>],
                  [kind |-> "nonError", message |-> <<>>]}

\* a database check that drops the exception's message
checkDatabase_GenericMessage(o) ==
    IF o.kind = "ok"
    THEN [status |-> "ok", message |-> <<"Database connection successful">>]
    ELSE [status |-> "error", message |-> <<"Database connection failed">>]

\* the database check of the handler (index.ts:162-170)
checkDatabase(o) ==
    IF o.kind = "ok"
    THEN [status |-> "ok", message |-> <<"Database connection successful">>]
    ELSE [status |-> "error",
          message |-> IF o.kind = "Error" THEN o.message
                      ELSE <<"Database connection failed">>]

Response(code, body) == [code |-> code, body |-> body]

\* a response whose status code looks at the database check only
healthResponse_CodeFromDatabaseOnly(checks) ==
    LET isHealthy == checks.database.status = "ok" /\ checks.configuration.status = "ok"
        statusCode == IF checks.database.status = "ok" THEN 200 ELSE 503
        base == [status |-> IF isHealthy THEN "ok" ELSE "error",
                 timestamp |-> "timestamp",
                 environment |-> NODE_ENV,
                 checks |-> checks,
                 uptime |-> "uptime"]
    IN Response(statusCode,
                IF NODE_ENV = <<"development">>
                THEN base @@ [version |-> "process.version", platform |-> "process.platform"]
                ELSE base)

\* a response that withholds the debug fields in test mode only
healthResponse_DebugUnlessTest(checks) ==
    LET isHealthy == checks.database.status = "ok" /\ checks.configuration.status = "ok"
        statusCode == IF isHealthy THEN 200 ELSE 503
        base == [status |-> IF isHealthy THEN "ok" ELSE "error",
                 timestamp |-> "timestamp",
                 environment |-> NODE_ENV,
                 checks |-> checks,
                 uptime |-> "uptime"]
    IN Response(statusCode,
                IF NODE_ENV # <<"test">>
                THEN base @@ [version |-> "process.version", platform |-> "process.platform"]
                ELSE base)

\* a response that reads the runtime mode from process.env when it answers
healthResponse_ModeAtRequestTime(checks) ==
    LET isHealthy == checks.database.status = "ok" /\ checks.configuration.status = "ok"
        statusCode == IF isHealthy THEN 200 ELSE 503
        base == [status |-> IF isHealthy THEN "ok" ELSE "error",
                 timestamp |-> "timestamp",
                 environment |-> processEnv.NODE_ENV.val,
                 checks |-> checks,
                 uptime |-> "uptime"]
    IN Response(statusCode,
                IF processEnv.NODE_ENV.val = <<"development">>
                THEN base @@ [version |-> "process.version", platform |-> "process.platform"]
                ELSE base)

\* the response of the handler (index.ts:216-231)
healthResponse(checks) ==
    LET isHealthy == checks.database.status = "ok" /\ checks.configuration.status = "ok"
        statusCode == IF isHealthy THEN 200 ELSE 503
        base == [status |-> IF isHealthy THEN "ok" ELSE "error",
                 timestamp |-> "timestamp",
                 environment |-> NODE_ENV,
                 checks |-> checks,
                 uptime |-> "uptime"]
    IN Response(statusCode,
                IF NODE_ENV = <<"development">>
                THEN base @@ [version |-> "process.version", platform |-> "process.platform"]
                ELSE base)

\* GET /health up to its await (index.ts:152-164): the probe is issued and
\* the handler is suspended; the call has no timeout, and the datastore
\* answers it (with a result or an error) or never does
healthRequest(r) ==
    /\ pc = "listening"
    /\ Arrives(r)
    /\ \E silent \in BOOLEAN :
          reqs' = [reqs EXCEPT ![r] = [NoRequest EXCEPT !.route = "GET /health",
                                                        !.stage = "probe",
                                                        !.handlerRan = TRUE,
                                                        !.ormCalls = 1,
                                                        !.pending = {"$queryRaw"},
                                                        !.silent = silent]]
    /\ UNCHANGED <<peerVars, processEnv, startVars, envWrites, queryWritable, users, uuids>>

\* a handler that reports the configuration validated at startup
healthProbeSettles_ConfigurationAtStartup(r) ==
    /\ reqs[r].stage = "probe"
    /\ ~reqs[r].silent
    /\ \E o \in ProbeOutcomes :
          LET checks == [database |-> checkDatabase(o),
                         configuration |->
                             checkConfiguration([PORT |-> Str(<<"8", "0", "8", "0">>),
                                                 NODE_ENV |-> Str(env.NODE_ENV),
                                                 DATABASE_URL |-> Str(env.DATABASE_URL)])]
          IN reqs' = [reqs EXCEPT ![r].stage = "done",
                                  ![r].pending = {},
                                  ![r].readAt = envWrites,
                                  ![r].got = o,
                                  ![r].threw = (o.kind # "ok"),
                                  ![r].sent = @ \o <<healthResponse(checks)>>]
    /\ UNCHANGED <<peerVars, processEnv, startVars, envWrites, queryWritable, users, uuids>>

\* a handler whose checks object is shared by all requests: the database
\* check a response carries is the one written last, by any request
healthProbeSettles_SharedChecks(r) ==
    /\ reqs[r].stage = "probe"
    /\ ~reqs[r].silent
    /\ \E o \in ProbeOutcomes :
          LET answered == {q \in RequestIds : reqs[q].stage = "done"}
              last == IF answered = {} THEN o
                      ELSE reqs[CHOOSE q \in answered : TRUE].got
              checks == [database |-> checkDatabase(last),
                         configuration |-> checkConfiguration(processEnv)]
          IN reqs' = [reqs EXCEPT ![r].stage = "done",
                                  ![r].pending = {},
                                  ![r].readAt = envWrites,
                                  ![r].got = o,
                                  ![r].threw = (o.kind # "ok"),
                                  ![r].sent = @ \o <<healthResponse(checks)>>]
    /\ UNCHANGED <<peerVars, processEnv, startVars, envWrites, queryWritable, users, uuids>>

\* GET /health from the settling of the probe to the response
\* (index.ts:165-231)
healthProbeSettles(r) ==
    /\ reqs[r].stage = "probe"
    /\ ~reqs[r].silent
    /\ \E o \in ProbeOutcomes :
          LET checks == [database |-> checkDatabase(o),
                         configuration |-> checkConfiguration(processEnv)]
          IN reqs' = [reqs EXCEPT ![r].stage = "done",
                                  ![r].pending = {},
                                  ![r].readAt = envWrites,
                                  ![r].got = o,
                                  ![r].threw = (o.kind # "ok"),
                                  ![r].sent = @ \o <<healthResponse(checks)>>]
    /\ UNCHANGED <<peerVars, processEnv, startVars, envWrites, queryWritable, users, uuids>>

\* ----------------------------------------------------- request schemas
\* z.string().email(): one '@' between a non-empty local part and a domain
IsEmail(s) == Len(s) = 3 /\ s[2] = "@" /\ s[1] # "@" /\ s[3] # "@"

Repeat(c, n) == [i \in 1..n |-> c]

\* request bodies: no body at all, or an object with email and name
Body(e, n) == Str([email |-> e, name |-> n])

Bodies == {Undefined,
           Body(Undefined, Undefined),
           Body(Str(<<"nobody">>), Str(<<>>)),
           Body(Str(<<"a", "@", "b.co">>), Str(<<>>)),
           Body(Str(<<"a", "@", "b.co">>), Str(Repeat("n", 101))),
           Body(Str(<<"nobody">>), Str(Repeat("n", 100))),
           Body(Str(<<"a", "@", "b.co">>), Str(Repeat("n", 100)))}

\* createUserSchema (index.ts:137-140)
createUserSchema(body) ==
    IF ~body.set
    THEN ParseFail(<<Issue("", "invalid_type",
                           "Invalid input: expected object, received undefined")>>)
    ELSE LET e == body.val.email
             n == body.val.name
             eIss == IF ~e.set
                     THEN <<Issue("email", "invalid_type",
                                  "Invalid input: expected string, received undefined")>>
                     ELSE IF ~IsEmail(e.val)
                     THEN <<Issue("email", "invalid_format", "Invalid email format")>>
                     ELSE <<>>
             nIss == IF ~n.set
                     THEN <<Issue("name", "invalid_type",
                                  "Invalid input: expected string, received undefined")>>
                     ELSE (IF Len(n.val) >= 1 THEN <<>>
                           ELSE <<Issue("name", "too_small", "Name is required")>>)
                          \o (IF Len(n.val) <= 100 THEN <<>>
                              ELSE <<Issue("name", "too_big", "Name too long")>>)
         IN IF eIss \o nIss = <<>>
            THEN ParseOk([email |-> e.val, name |-> n.val])
            ELSE ParseFail(eIss \o nIss)

\* the :id part of the path, never empty
IdValues == { <<"1">>, <<"2">>, <<"0", "1">>, <<"x">> }

\* userIdSchema (index.ts:142-144)
userIdSchema(params) ==
    IF IsDigitString(params.id) THEN ParseOk([id |-> Number(params.id)])
    ELSE ParseFail(<<Issue("id", "invalid_format", "Invalid user ID format")>>)

\* query parameters page and limit: absent or a string
Query(p, l) == [page |-> p, limit |-> l]

Queries == {Query(Undefined, Undefined),
            Query(Str(<<"2">>), Str(<<"1">>)),
            Query(Str(<<"0">>), Str(<<"1">>)),
            Query(Str(<<"1">>), Str(<<"0">>)),
            Query(Str(<<"x">>), Undefined),
            Query(Str(<<"x">>), Str(<<"1", "0", "x">>))}

\* z.string().regex(/^\d+$/).optional().default(d).transform(Number)
paginationField(name, v, d) ==
    IF ~v.set THEN ParseOk(d)
    ELSE IF IsDigitString(v.val) THEN ParseOk(Number(v.val))
    ELSE ParseFail(<<Issue(name, "invalid_format",
                           "Invalid string: must match pattern /^\\d+$/")>>)

\* paginationSchema (index.ts:146-149)
paginationSchema(query) ==
    LET p == paginationField("page", query.page, 1)
        l == paginationField("limit", query.limit, 10)
    IN IF p.issues \o l.issues = <<>>
       THEN ParseOk([page |-> p.value, limit |-> l.value])
       ELSE ParseFail(p.issues \o l.issues)

\* ------------------------------------------------- errors and middleware
\* logError (index.ts:69-95): no caller passes context.errorId, so the id is
\* a fresh crypto.randomUUID(); the k-th call of the run returns <<"uuid", k>>
logError(k) == <<"uuid", k>>

\* a 400 response that reports the first issue only
validationErrorResponse_FirstIssueOnly(iss) ==
    Response(400, [error |-> "Validation Error",
                   details |-> <<[field |-> iss[1].path, message |-> iss[1].message]>>])

\* the 400 response of validate (index.ts:122-128): one entry per issue
validationErrorResponse(iss) ==
    Response(400, [error |-> "Validation Error",
                   details |-> [i \in 1..Len(iss) |->
                                   [field |-> iss[i].path, message |-> iss[i].message]]])

\* an error handler that withholds the error's details in test mode only
globalErrorHandler_DetailsUnlessTest(err, k) ==
    LET errorId == logError(k)
    IN Response(500,
         IF NODE_ENV # <<"test">>
         THEN [error |-> "Internal Server Error", errorId |-> errorId,
               message |-> err.message, stack |-> <<"stack of: ">> \o err.message,
               name |-> err.name]
         ELSE [error |-> "Internal Server Error", errorId |-> errorId,
               message |-> <<"An unexpected error occurred. Please contact support with the error ID if the problem persists.">>])

\* the global error handler (index.ts:362-383)
globalErrorHandler(err, k) ==
    LET errorId == logError(k)
    IN Response(500,
         IF NODE_ENV = <<"development">>
         THEN [error |-> "Internal Server Error", errorId |-> errorId,
               message |-> err.message, stack |-> <<"stack of: ">> \o err.message,
               name |-> err.name]
         ELSE [error |-> "Internal Server Error", errorId |-> errorId,
               message |-> <<"An unexpected error occurred. Please contact support with the error ID if the problem persists.">>])

\* a catch block that logs the error and leaves the id out of the response
handlerErrorResponse_NoErrorId(what, errMessage, k) ==
    Response(500,
         IF NODE_ENV = <<"development">>
         THEN [error |-> what, message |-> errMessage]
         ELSE [error |-> what])

\* the catch block of a route handler (index.ts:273-285, 304-316, 338-350)
handlerErrorResponse(what, errMessage, k) ==
    LET errorId == logError(k)
    IN Response(500,
         IF NODE_ENV = <<"development">>
         THEN [error |-> what, errorId |-> errorId, message |-> errMessage]
         ELSE [error |-> what, errorId |-> errorId])

\* what an ORM call can do once it settles
OrmErrorMessages == { <<"Can't reach database server">>,
                      <<"Unique constraint failed on the fields: (email)">> }

OrmOutcomes == {[kind |-> "ok", message |-> <<>>]} \cup
               {[kind |-> "Error", message |-> m] : m \in OrmErrorMessages}

\* validate({...}) (index.ts:103-134) for one request part: the result is
\* next() with the parsed part, the 400 response, or next(error).
\* Assigning req.query throws a TypeError where the framework defines
\* req.query by a getter only (Express 5); req.body and req.params are
\* plain properties.
validate(part, parsed) ==
    IF ~parsed.ok THEN [outcome |-> "400", response |-> validationErrorResponse(parsed.issues)]
    ELSE IF part = "query" /\ ~queryWritable
    THEN [outcome |-> "nextError",
          error |-> [name |-> "TypeError",
                     message |-> <<"Cannot set property query of #<IncomingMessage> which has only a getter">>]]
    ELSE [outcome |-> "next", value |-> parsed.value]

\* a middleware that forwards the schema error after answering 400
rejectedByValidate_ForwardsAfter400(r, route, input, v) ==
    /\ reqs' = [reqs EXCEPT ![r] = [NoRequest EXCEPT !.route = route,
                                     !.stage = "done", !.input = input,
                                     !.errorHandlerRan = TRUE,
                                     !.caught = [name |-> "ZodError", message |-> <<>>],
                                     !.sent = IF v.outcome = "400"
                                              THEN <<v.response>>
                                              ELSE <<globalErrorHandler(v.error, uuids + 1)>>]]
    /\ uuids' = uuids + 1

\* the request ends in validate: 400, or the global error handler
rejectedByValidate(r, route, input, v) ==
    IF v.outcome = "400"
    THEN /\ reqs' = [reqs EXCEPT ![r] = [NoRequest EXCEPT !.route = route,
                                          !.stage = "done", !.input = input,
                                          !.sent = <<v.response>>]]
         /\ UNCHANGED uuids
    ELSE /\ reqs' = [reqs EXCEPT ![r] = [NoRequest EXCEPT !.route = route,
                                          !.stage = "done", !.input = input,
                                          !.errorHandlerRan = TRUE,
                                          !.caught = v.error,
                                          !.sent = <<globalErrorHandler(v.error, uuids + 1)>>]]
         /\ uuids' = uuids + 1

\* ------------------------------------------------------------ API routes
\* rows skip+1 .. skip+take of the table, as findMany({skip, take}) returns
Page(skip, take, n) == [i \in 1..(IF n - skip < 0 THEN 0
                                  ELSE IF n - skip < take THEN n - skip ELSE take)
                           |-> skip + i]

\* Math.ceil(total / limit); division by zero gives NaN (0/0) or Infinity
totalPages(total, limit) ==
    IF limit = 0 THEN (IF total = 0 THEN "NaN" ELSE "Infinity")
    ELSE (total + limit - 1) \div limit

\* GET /api/users up to its await (index.ts:251-262): validate, then both
\* ORM calls of the Promise.all are issued
listRequest(r) ==
    /\ pc = "listening"
    /\ Arrives(r)
    /\ \E query \in Queries :
          LET v == validate("query", paginationSchema(query))
          IN IF v.outcome = "next"
             THEN /\ reqs' = [reqs EXCEPT ![r] =
                         [NoRequest EXCEPT !.route = "GET /api/users", !.stage = "list",
                                           !.input = query, !.handlerRan = TRUE,
                                           !.ormCalls = 2,
                                           !.pending = {"findMany", "count"},
                                           !.got = [page |-> v.value.page,
                                                    limit |-> v.value.limit,
                                                    skip |-> (v.value.page - 1) * v.value.limit,
                                                    take |-> v.value.limit]]]
                  /\ UNCHANGED uuids
             ELSE rejectedByValidate(r, "GET /api/users", query, v)
    /\ UNCHANGED <<peerVars, processEnv, startVars, envWrites, queryWritable, users>>

\* the response of GET /api/users once both calls have resolved
\* (index.ts:264-272)
listResponse(g) ==
    Response(200, [data |-> g.data,
                   pagination |-> [page |-> g.page, limit |-> g.limit, total |-> g.total,
                                   totalPages |-> totalPages(g.total, g.limit)]])

\* one ORM call of the Promise.all settles; the first rejection rejects the
\* Promise.all and runs the catch block (index.ts:273-285); findMany
\* rejects a negative skip
listCallSettles(r, call) ==
    /\ reqs[r].stage = "list"
    /\ call \in reqs[r].pending
    /\ \E o \in OrmOutcomes :
          /\ call = "findMany" /\ reqs[r].got.skip < 0 => o.kind = "Error"
          /\ IF o.kind = "Error"
             THEN /\ reqs' = [reqs EXCEPT ![r].stage = "done", ![r].pending = {},
                             ![r].threw = TRUE,
                             ![r].caught = [name |-> "Error", message |-> o.message],
                                ![r].sent = @ \o <<handlerErrorResponse("Failed to fetch users",
                                                                        o.message, uuids + 1)>>]
                  /\ uuids' = uuids + 1
             ELSE LET g == IF call = "findMany"
                           THEN reqs[r].got @@ [data |-> Page(reqs[r].got.skip,
                                                              reqs[r].got.take, users)]
                           ELSE reqs[r].got @@ [total |-> users]
                      rest == reqs[r].pending \ {call}
                  IN /\ reqs' = [reqs EXCEPT ![r].got = g, ![r].pending = rest,
                                   ![r].stage = IF rest = {} THEN "done" ELSE "list",
                                   ![r].sent = IF rest = {} THEN @ \o <<listResponse(g)>>
                                               ELSE @]
                     /\ UNCHANGED uuids
    /\ UNCHANGED <<peerVars, processEnv, startVars, envWrites, queryWritable, users>>

\* POST /api/users up to its await (index.ts:289-298)
createRequest(r) ==
    /\ pc = "listening"
    /\ Arrives(r)
    /\ \E body \in Bodies :
          LET v == validate("body", createUserSchema(body))
          IN IF v.outcome = "next"
             THEN /\ reqs' = [reqs EXCEPT ![r] =
                         [NoRequest EXCEPT !.route = "POST /api/users", !.stage = "create",
                                           !.input = body, !.handlerRan = TRUE,
                                           !.ormCalls = 1, !.pending = {"create"},
                                           !.got = v.value]]
                  /\ UNCHANGED uuids
             ELSE rejectedByValidate(r, "POST /api/users", body, v)
    /\ UNCHANGED <<peerVars, processEnv, startVars, envWrites, queryWritable, users>>

\* prisma.user.create settles (index.ts:300-316)
createSettles(r) ==
    /\ reqs[r].stage = "create"
    /\ \E o \in OrmOutcomes :
          IF o.kind = "Error"
          THEN /\ reqs' = [reqs EXCEPT ![r].stage = "done", ![r].pending = {},
                             ![r].threw = TRUE,
                             ![r].caught = [name |-> "Error", message |-> o.message],
                             ![r].sent = @ \o <<handlerErrorResponse("Failed to create user",
                                                                     o.message, uuids + 1)>>]
               /\ uuids' = uuids + 1
               /\ UNCHANGED users
          ELSE /\ users' = users + 1
               /\ reqs' = [reqs EXCEPT ![r].stage = "done", ![r].pending = {},
                             ![r].sent = @ \o <<Response(201,
                                 [data |-> [id |-> users + 1, email |-> reqs[r].got.email,
                                            name |-> reqs[r].got.name],
                                  message |-> "User created successfully"])>>]
               /\ UNCHANGED uuids
    /\ UNCHANGED <<peerVars, processEnv, startVars, envWrites, queryWritable>>

\* GET /api/users/:id up to its await (index.ts:320-326)
getRequest(r) ==
    /\ pc = "listening"
    /\ Arrives(r)
    /\ \E id \in IdValues :
          LET v == validate("params", userIdSchema([id |-> id]))
          IN IF v.outcome = "next"
             THEN /\ reqs' = [reqs EXCEPT ![r] =
                         [NoRequest EXCEPT !.route = "GET /api/users/:id", !.stage = "get",
                                           !.input = id, !.handlerRan = TRUE,
                                           !.ormCalls = 1, !.pending = {"findUnique"},
                                           !.got = v.value]]
                  /\ UNCHANGED uuids
             ELSE rejectedByValidate(r, "GET /api/users/:id", id, v)
    /\ UNCHANGED <<peerVars, processEnv, startVars, envWrites, queryWritable, users>>

\* prisma.user.findUnique settles (index.ts:328-350)
getSettles(r) ==
    /\ reqs[r].stage = "get"
    /\ \E o \in OrmOutcomes :
          IF o.kind = "Error"
          THEN /\ reqs' = [reqs EXCEPT ![r].stage = "done", ![r].pending = {},
                             ![r].threw = TRUE,
                             ![r].caught = [name |-> "Error", message |-> o.message],
                             ![r].sent = @ \o <<handlerErrorResponse("Failed to fetch user",
                                                                     o.message, uuids + 1)>>]
               /\ uuids' = uuids + 1
          ELSE /\ reqs' = [reqs EXCEPT ![r].stage = "done", ![r].pending = {},
                             ![r].sent = @ \o
                                 <<IF reqs[r].got.id \in 1..users
                                   THEN Response(200, [data |-> [id |-> reqs[r].got.id]])
                                   ELSE Response(404, [error |-> "User not found"])>>]
               /\ UNCHANGED uuids
    /\ UNCHANGED <<peerVars, processEnv, startVars, envWrites, queryWritable, users>>

\* GET /api and GET /api/example (index.ts:235-248)
staticRequest(r) ==
    /\ pc = "listening"
    /\ Arrives(r)
    /\ \E route \in {"GET /api", "GET /api/example"} :
          reqs' = [reqs EXCEPT ![r] =
              [NoRequest EXCEPT !.route = route, !.stage = "done", !.handlerRan = TRUE,
                  !.sent = <<Response(200,
                      IF route = "GET /api"
                      THEN [message |-> "Welcome to the API", version |-> "1.0.0"]
                      ELSE [data |-> "This is an example endpoint",
                            timestamp |-> "timestamp"])>>]]
    /\ UNCHANGED <<peerVars, processEnv, startVars, envWrites, queryWritable, users, uuids>>

\* express.json() (index.ts:99) cannot parse the body of a request: it
\* passes a SyntaxError to next, no route runs, and the global error handler
\* answers
malformedJson(r) ==
    /\ pc = "listening"
    /\ Arrives(r)
    /\ LET err == [name |-> "SyntaxError",
                   message |-> <<"Unexpected end of JSON input">>]
       IN reqs' = [reqs EXCEPT ![r] =
              [NoRequest EXCEPT !.route = "express.json", !.stage = "done",
                                !.errorHandlerRan = TRUE, !.caught = err,
                                !.sent = <<globalErrorHandler(err, uuids + 1)>>]]
    /\ uuids' = uuids + 1
    /\ UNCHANGED <<peerVars, processEnv, startVars, envWrites, queryWritable, users>>

\* the router cannot decode the :id segment of GET /api/users/:id
\* (index.ts:320): decodeURIComponent throws a URIError, the router passes
\* it to next, neither validate nor the handler runs, and the global error
\* handler (index.ts:362-383) answers
undecodableParam(r) ==
    /\ pc = "listening"
    /\ Arrives(r)
    /\ LET err == [name |-> "URIError",
                   message |-> <<"Failed to decode param '%'">>]
       IN reqs' = [reqs EXCEPT ![r] =
              [NoRequest EXCEPT !.route = "router", !.stage = "done",
                                !.input = <<"%">>,
                                !.errorHandlerRan = TRUE, !.caught = err,
                                !.sent = <<globalErrorHandler(err, uuids + 1)>>]]
    /\ uuids' = uuids + 1
    /\ UNCHANGED <<peerVars, processEnv, startVars, envWrites, queryWritable, users>>

\* paths no route is registered for
UnknownPaths == { <<"/nowhere">>, <<"/api/users/1/posts">> }

\* the 404 handler (index.ts:354-359), reached by a request no route matches
notFound(r) ==
    /\ pc = "listening"
    /\ Arrives(r)
    /\ \E path \in UnknownPaths :
          reqs' = [reqs EXCEPT ![r] =
              [NoRequest EXCEPT !.route = "unmatched", !.stage = "done",
                                !.input = path,
                                !.sent = <<Response(404, [error |-> "Not Found",
                                                          path |-> path])>>]]
    /\ UNCHANGED <<peerVars, processEnv, startVars, envWrites, queryWritable, users, uuids>>

\* values written to process.env after startup: the variable is deleted,
\* emptied, given a value the validator rejects, or given a valid value again
WrittenValues(n) ==
    {Undefined, Str(<<>>)} \cup
    (IF n = "PORT" THEN {Str(<<"8", "0", "a">>), Str(<<"8", "0", "8", "0">>)}
     ELSE IF n = "NODE_ENV" THEN {Str(<<"staging">>), Str(env.NODE_ENV)}
     ELSE {Str(MysqlPrefix), Str(env.DATABASE_URL)})

\* the write gives the variable the value the validated configuration holds
Restores(n, v) ==
    LET parsed == IF n = "PORT" THEN envSchemaPORT(v)
                  ELSE IF n = "NODE_ENV" THEN envSchemaNODE_ENV(v)
                  ELSE envSchemaDATABASE_URL(v)
    IN parsed.ok /\ parsed.value = env[n]

\* process.env is a mutable object the handler reads at request time
\* (index.ts:178-197): a variable is assigned or deleted while the server
\* runs. MaxEnvWrites bounds the writes that depart from the validated
\* configuration; a write that restores a variable is always possible.
processEnvWrite ==
    /\ pc = "listening"
    /\ \E n \in {"PORT", "NODE_ENV", "DATABASE_URL"} : \E v \in WrittenValues(n) :
          /\ v # processEnv[n]
          /\ envWrites < MaxEnvWrites \/ (Restores(n, v) /\ ~Restores(n, processEnv[n]))
          /\ processEnv' = [processEnv EXCEPT ![n] = v]
    /\ envWrites' = envWrites + 1
    /\ UNCHANGED <<peerVars, startVars, queryWritable, serverVars>>

\* ------------------------------------------- frontend: vite.config.ts
\* A URL string is a sequence of pieces: a scheme with its colon, "//",
\* host characters.
SchemePieces == {"http:", "https:", "HTTP:", "ftp:", "mailto:"}

\* the URL parser lower-cases the scheme
Lowercase(p) == IF p = "HTTP:" THEN "http:" ELSE p

\* the schemes of the URL standard that need a host
SpecialSchemes == {"http:", "https:", "ftp:"}

RECURSIVE SkipSlashes(_)
SkipSlashes(s) == IF Len(s) > 0 /\ Head(s) \in {"/", "//"}
                  THEN SkipSlashes(Tail(s)) ELSE s

\* new URL(s) without a base: throws unless s starts with a scheme; a
\* special scheme needs a non-empty host after any slashes
URL(s) ==
    IF Len(s) = 0 \/ s[1] \notin SchemePieces THEN [ok |-> FALSE, protocol |-> ""]
    ELSE IF Lowercase(s[1]) \in SpecialSchemes /\ SkipSlashes(Tail(s)) = <<>>
    THEN [ok |-> FALSE, protocol |-> ""]
    ELSE [ok |-> TRUE, protocol |-> Lowercase(s[1])]

ValidationError(field, message) == [field |-> field, message |-> message]

\* the VITE_PORT block of validateEnvironment (vite.config.ts:15-25)
vitePortErrors(v) ==
    IF ~Truthy(v)
    THEN <<ValidationError("VITE_PORT", <<"VITE_PORT is required">>)>>
    ELSE IF ~IsDigitString(v.val)
    THEN <<ValidationError("VITE_PORT", <<"VITE_PORT must be a valid port number">>)>>
    ELSE IF parseInt(v.val).val < 1 \/ parseInt(v.val).val > 65535
    THEN <<ValidationError("VITE_PORT", <<"VITE_PORT must be between 1 and 65535">>)>>
    ELSE <<>>

\* the VITE_API_URL block of validateEnvironment (vite.config.ts:28-40)
viteApiUrlErrors(v) ==
    IF ~Truthy(v)
    THEN <<ValidationError("VITE_API_URL", <<"VITE_API_URL is required">>)>>
    ELSE IF ~URL(v.val).ok
    THEN <<ValidationError("VITE_API_URL",
               <<"VITE_API_URL must be a valid URL. Current value: ">> \o v.val)>>
    ELSE IF URL(v.val).protocol \notin {"http:", "https:"}
    THEN <<ValidationError("VITE_API_URL",
               <<"VITE_API_URL must use http:// or https:// protocol">>)>>
    ELSE <<>>

\* a validator that returns at the first setting with an error
viteErrors_FirstSettingOnly(e) ==
    IF vitePortErrors(e.VITE_PORT) # <<>> THEN vitePortErrors(e.VITE_PORT)
    ELSE viteApiUrlErrors(e.VITE_API_URL)

\* the errors list of validateEnvironment (vite.config.ts:12-40)
viteErrors(e) == vitePortErrors(e.VITE_PORT) \o viteApiUrlErrors(e.VITE_API_URL)

\* the console.error calls of vite.config.ts:44-51
ViteFailureReport(errors) ==
    <<Line("header", "", "Frontend environment variable validation failed:"),
      Line("blank", "", "")>>
    \o [i \in 1..Len(errors) |-> Line("issue", errors[i].field, errors[i].message)]
    \o <<Line("blank", "", ""),
         Line("guidance", "", "Please check your .env file and ensure all required variables are set correctly."),
         Line("template", "", "See env.example for reference.")>>

\* the callback given to defineConfig (vite.config.ts:64-84):
\* validateEnvironment(loadEnv(...)) either reports and calls
\* process.exit(1) or returns the settings, and the dev server gets its port
defineConfig ==
    /\ vite.pc = "config"
    /\ LET errors == viteErrors(vite.env)
       IN IF Len(errors) > 0
          THEN vite' = [vite EXCEPT !.pc = "exited", !.errors = errors,
                                    !.stderr = ViteFailureReport(errors),
                                    !.exitCode = 1]
          ELSE vite' = [vite EXCEPT !.pc = "configured",
                                    !.validated = [VITE_PORT |-> parseInt(vite.env.VITE_PORT.val).val,
                                                   VITE_API_URL |-> vite.env.VITE_API_URL.val],
                                    !.port = parseInt(vite.env.VITE_PORT.val).val]
    /\ UNCHANGED <<prismaModule, page, seed, processEnv, startVars, envWrites,
                   queryWritable, serverVars>>

ApiUrlPrefixes == { <<>>, <<"//">>, <<"http:">>, <<"http:", "//">>, <<"https:", "//">>,
                    <<"HTTP:", "//">>, <<"ftp:", "//">>, <<"mailto:">> }

ApiUrlValues == {Undefined} \cup
                {Str(p \o t) : p \in ApiUrlPrefixes, t \in SeqsUpTo({"h"}, MaxUrlTail)}

ViteEnvStates == [VITE_PORT : PortValues, VITE_API_URL : ApiUrlValues]

\* validateEnvironment of vite.config.ts applied to every environment state
InitFrontend ==
    /\ vite \in {ViteProcess(e) : e \in ViteEnvStates}
    /\ prismaModule = NoPrisma
    /\ page = NoPage
    /\ seed = NoSeed
    /\ processEnv = EmptyDotenv
    /\ dotenvFile = EmptyDotenv
    /\ pc = "import"
    /\ env = NoEnv
    /\ zodIssues = <<>>
    /\ stderr = <<>>
    /\ exitCode = -1
    /\ listenPort = 0
    /\ envWrites = 0
    /\ queryWritable = FALSE
    /\ reqs = [r \in RequestIds |-> NoRequest]
    /\ users = 0
    /\ uuids = 0

NextFrontend == defineConfig

SpecFrontend == InitFrontend /\ [][NextFrontend]_vars

\* --------------------------------------- frontend: ConnectionPage.tsx
\* the component is mounted and its effect runs (ConnectionPage.tsx:21-30,
\* main.tsx:9-19): every run calls fetchConnection, which sets loading,
\* clears error and awaits fetch; the runs of one mount happen before any
\* response arrives
pageMount ==
    /\ ~page.mounted
    /\ \E runs \in CallIds :
          page' = [page EXCEPT !.mounted = TRUE, !.loading = TRUE, !.error = Undefined,
                               !.calls = [c \in CallIds |->
                                            Call(IF c <= runs THEN "fetch" ELSE "idle",
                                                 NoResponse)]]
    /\ UNCHANGED <<vite, prismaModule, seed, processEnv, startVars, envWrites,
                   queryWritable, serverVars>>

\* what `await fetch(...)` gives: a response with ok true, a response with
\* ok false and its statusText (404 and 500 of the API, 502 of a proxy in
\* front of it, the empty text of HTTP/2), or a rejection (network failure)
FetchOutcomes ==
    {[kind |-> "ok", text |-> <<>>], [kind |-> "rejected", text |-> <<>>]}
    \cup {[kind |-> "notOk", text |-> t] :
             t \in { <<"Not Found">>, <<"Internal Server Error">>, <<"Bad Gateway">>,
                     <<>> }}

\* the catch and finally blocks (ConnectionPage.tsx:38-42)
failed(c, o, message) ==
    [page EXCEPT !.error = Str(message), !.loading = FALSE, !.calls[c] = Call("done", o)]

\* the fetch of call c settles (ConnectionPage.tsx:30-34)
fetchSettles(c) ==
    /\ page.calls[c].stage = "fetch"
    /\ \E o \in FetchOutcomes :
          page' = IF o.kind = "ok" THEN [page EXCEPT !.calls[c] = Call("json", o)]
                  ELSE IF o.kind = "notOk"
                  THEN failed(c, o, <<"Failed to fetch connection: ">> \o o.text)
                  ELSE failed(c, o, <<"Failed to fetch">>)
    /\ UNCHANGED <<vite, prismaModule, seed, processEnv, startVars, envWrites,
                   queryWritable, serverVars>>

\* response.json() of call c settles (ConnectionPage.tsx:36-42): the body
\* is the server's {data: connection}, or cannot be parsed
jsonSettles(c) ==
    /\ page.calls[c].stage = "json"
    /\ \E parsed \in BOOLEAN :
          page' = IF parsed
                  THEN [page EXCEPT !.connection = Str([id |-> 1, name |-> "Primary Database"]),
                                    !.loading = FALSE,
                                    !.calls[c] = Call("done", page.calls[c].response)]
                  ELSE failed(c, [kind |-> "unparsable", text |-> <<>>],
                              <<"Unexpected token '<'">>)
    /\ UNCHANGED <<vite, prismaModule, seed, processEnv, startVars, envWrites,
                   queryWritable, serverVars>>

\* the cards ConnectionPage renders (ConnectionPage.tsx:60-88)
Cards ==
    (IF page.loading THEN {"loading"} ELSE {})
    \cup (IF page.error.set /\ page.error.val # <<>> THEN {"error"} ELSE {})
    \cup (IF page.connection.set /\ ~page.loading THEN {"details"} ELSE {})

InitPage ==
    /\ page = NoPage
    /\ vite = NoVite
    /\ prismaModule = NoPrisma
    /\ seed = NoSeed
    /\ processEnv = EmptyDotenv
    /\ dotenvFile = EmptyDotenv
    /\ pc = "import"
    /\ env = NoEnv
    /\ zodIssues = <<>>
    /\ stderr = <<>>
    /\ exitCode = -1
    /\ listenPort = 0
    /\ envWrites = 0
    /\ queryWritable = FALSE
    /\ reqs = [r \in RequestIds |-> NoRequest]
    /\ users = 0
    /\ uuids = 0

NextPage ==
    \/ pageMount
    \/ \E c \in CallIds : fetchSettles(c)
    \/ \E c \in CallIds : jsonSettles(c)

SpecPage == InitPage /\ [][NextPage]_vars

\* ------------------------------------------------- prisma/seed.ts
\* s[from..to] is not empty and has no character of the set
Without(s, from, to, chars) ==
    from <= to /\ \A k \in from..to : s[k] \notin chars

\* the pattern of seed.ts:14 finds a match somewhere in s:
\* mysql://([^:]+):([^@]+)@([^:]+):(\d+)/([^?]+)
MatchesUrlPattern(s) ==
    \E start \in 1..Len(s) :
        /\ StartsWith(SubSeq(s, start, Len(s)), MysqlPrefix)
        /\ \E a \in start..Len(s) :
              /\ s[a] = ":"
              /\ Without(s, start + Len(MysqlPrefix), a - 1, {":"})
              /\ \E b \in a..Len(s) :
                    /\ s[b] = "@"
                    /\ Without(s, a + 1, b - 1, {"@"})
                    /\ \E c \in b..Len(s) :
                          /\ s[c] = ":"
                          /\ Without(s, b + 1, c - 1, {":"})
                          /\ \E d \in c..Len(s) :
                                /\ s[d] = "/"
                                /\ c + 1 <= d - 1
                                /\ \A k \in (c + 1)..(d - 1) : s[k] \in Digits
                                /\ d + 1 <= Len(s) /\ s[d + 1] # "?"

SeedUrlValues ==
    {Undefined,
     Str(MysqlPrefix \o <<"h">>),
     Str(MysqlPrefix \o <<"u", ":", "p", "@", "h", ":", "3", "/", "d">>)}

\* main() up to its first await (seed.ts:5-30): a missing or unmatched
\* DATABASE_URL throws, and the catch of seed.ts:53-56 exits with status 1
seedStart(i) ==
    /\ seed.runs[i].pc = "none"
    /\ \E url \in SeedUrlValues :
          seed' = [seed EXCEPT !.runs[i] =
                     IF Truthy(url) /\ MatchesUrlPattern(url.val)
                     THEN [pc |-> "findFirst", databaseUrl |-> url, exitCode |-> -1]
                     ELSE [pc |-> "failed", databaseUrl |-> url, exitCode |-> 1]]
    /\ UNCHANGED <<vite, prismaModule, page, processEnv, startVars, envWrites,
                   queryWritable, serverVars>>

\* prisma.connection.findFirst() settles (seed.ts:30-38): the run ends when
\* a record exists and issues the create otherwise
seedFindFirstSettles(i) ==
    /\ seed.runs[i].pc = "findFirst"
    /\ \E resolved \in BOOLEAN :
          seed' = [seed EXCEPT !.runs[i].pc = IF ~resolved THEN "failed"
                                              ELSE IF seed.records # <<>> THEN "skipped"
                                              ELSE "create",
                               !.runs[i].exitCode = IF ~resolved THEN 1
                                                    ELSE IF seed.records # <<>> THEN 0
                                                    ELSE -1]
    /\ UNCHANGED <<vite, prismaModule, page, processEnv, startVars, envWrites,
                   queryWritable, serverVars>>

\* prisma.connection.create(...) settles (seed.ts:38-50)
seedCreateSettles(i) ==
    /\ seed.runs[i].pc = "create"
    /\ \E resolved \in BOOLEAN :
          seed' = IF resolved
                  THEN [seed EXCEPT !.records = Append(@, i),
                                    !.runs[i].pc = "created", !.runs[i].exitCode = 0]
                  ELSE [seed EXCEPT !.runs[i].pc = "failed", !.runs[i].exitCode = 1]
    /\ UNCHANGED <<vite, prismaModule, page, processEnv, startVars, envWrites,
                   queryWritable, serverVars>>

\* seed runs against a datastore whose connections table is empty or holds
\* one record
InitSeed ==
    /\ seed \in {[NoSeed EXCEPT !.records = recs] : recs \in {<<>>, <<0>>}}
    /\ page = NoPage
    /\ vite = NoVite
    /\ prismaModule = NoPrisma
    /\ processEnv = EmptyDotenv
    /\ dotenvFile = EmptyDotenv
    /\ pc = "import"
    /\ env = NoEnv
    /\ zodIssues = <<>>
    /\ stderr = <<>>
    /\ exitCode = -1
    /\ listenPort = 0
    /\ envWrites = 0
    /\ queryWritable = FALSE
    /\ reqs = [r \in RequestIds |-> NoRequest]
    /\ users = 0
    /\ uuids = 0

NextSeed ==
    \/ \E i \in SeedRuns : seedStart(i)
    \/ \E i \in SeedRuns : seedFindFirstSettles(i)
    \/ \E i \in SeedRuns : seedCreateSettles(i)

SpecSeed == InitSeed /\ [][NextSeed]_vars

\* ---------------------------------------------------------- the server
Init ==
    /\ processEnv \in BootEnvStates
    /\ dotenvFile \in DotenvFiles
    /\ pc = "import"
    /\ env = NoEnv
    /\ zodIssues = <<>>
    /\ stderr = <<>>
    /\ exitCode = -1
    /\ listenPort = 0
    /\ envWrites = 0
    /\ queryWritable \in BOOLEAN
    /\ reqs = [r \in RequestIds |-> NoRequest]
    /\ users = 0
    /\ uuids = 0
    /\ vite = NoVite
    /\ prismaModule = NoPrisma
    /\ page = NoPage
    /\ seed = NoSeed

Next ==
    \/ importPrisma
    \/ dotenvConfig
    \/ validateEnvironment
    \/ listen
    \/ \E r \in RequestIds : healthRequest(r)
    \/ \E r \in RequestIds : healthProbeSettles(r)

Spec == Init /\ [][Next]_vars

\* the process up to the end of its imports, lib/prisma.ts being evaluated
\* again on each reload
NextPrisma ==
    \/ importPrisma
    \/ reloadPrisma

SpecPrisma == Init /\ [][NextPrisma]_vars

\* the server after a successful startup, in each runtime mode; its routes
InitApi ==
    /\ \E mode \in NodeEnvs :
          /\ processEnv = [PORT |-> Str(<<"8", "0", "8", "0">>), NODE_ENV |-> Str(mode),
                           DATABASE_URL |-> Str(MysqlPrefix \o <<"h">>)]
          /\ env = [ok |-> TRUE, PORT |-> 8080, NODE_ENV |-> mode,
                    DATABASE_URL |-> MysqlPrefix \o <<"h">>]
          /\ prismaModule = evaluatePrismaModule(NoPrisma, mode)
    /\ dotenvFile = EmptyDotenv
    /\ pc = "listening"
    /\ zodIssues = <<>>
    /\ stderr = <<>>
    /\ exitCode = -1
    /\ listenPort = 8080
    /\ envWrites = 0
    /\ queryWritable \in BOOLEAN
    /\ reqs = [r \in RequestIds |-> NoRequest]
    /\ users = 1
    /\ uuids = 0
    /\ vite = NoVite
    /\ page = NoPage
    /\ seed = NoSeed

NextApi ==
    \/ \E r \in RequestIds : healthRequest(r)
    \/ \E r \in RequestIds : healthProbeSettles(r)
    \/ \E r \in RequestIds : listRequest(r)
    \/ \E r \in RequestIds, call \in {"findMany", "count"} : listCallSettles(r, call)
    \/ \E r \in RequestIds : createRequest(r)
    \/ \E r \in RequestIds : createSettles(r)
    \/ \E r \in RequestIds : getRequest(r)
    \/ \E r \in RequestIds : getSettles(r)
    \/ \E r \in RequestIds : staticRequest(r)
    \/ \E r \in RequestIds : malformedJson(r)
    \/ \E r \in RequestIds : undecodableParam(r)
    \/ \E r \in RequestIds : notFound(r)

SpecApi == InitApi /\ [][NextApi]_vars

\* the server after a successful startup, answering GET /health while
\* process.env is written to
InitHealth == InitApi /\ queryWritable = FALSE

NextHealth ==
    \/ processEnvWrite
    \/ \E r \in RequestIds : healthRequest(r)
    \/ \E r \in RequestIds : healthProbeSettles(r)

SpecHealth == InitHealth /\ [][NextHealth]_vars

\* the server some time after a successful startup: process.env has been
\* written to any number of times
HealthEnvStates ==
    [PORT : BootPortValues \cup {Str(<<"0">>), Str(<<"6", "5", "5", "3", "6">>),
                                 Str(<<" ", "8", "0">>)},
     NODE_ENV : BootNodeEnvValues,
     DATABASE_URL : BootUrlValues]

InitConfiguration ==
    /\ processEnv \in HealthEnvStates
    /\ env = [ok |-> TRUE, PORT |-> 8080, NODE_ENV |-> <<"production">>,
              DATABASE_URL |-> MysqlPrefix \o <<"h">>]
    /\ dotenvFile = EmptyDotenv
    /\ pc = "listening"
    /\ zodIssues = <<>>
    /\ stderr = <<>>
    /\ exitCode = -1
    /\ listenPort = 8080
    /\ envWrites = 0
    /\ queryWritable = FALSE
    /\ reqs = [r \in RequestIds |-> NoRequest]
    /\ users = 1
    /\ uuids = 0
    /\ vite = NoVite
    /\ prismaModule = evaluatePrismaModule(NoPrisma, <<"production">>)
    /\ page = NoPage
    /\ seed = NoSeed

\* GET /health alone, with the scheduling the runtime guarantees: the event
\* loop resumes the handler once the datastore has answered the probe;
\* nothing makes the datastore answer
NextProbe ==
    \/ \E r \in RequestIds : healthRequest(r)
    \/ \E r \in RequestIds : healthProbeSettles(r)

SpecHealthLive ==
    /\ InitHealth
    /\ [][NextProbe]_vars
    /\ \A r \in RequestIds : WF_vars(healthProbeSettles(r))

\* the configuration check applied to every environment of HealthEnvStates
SpecConfiguration == InitConfiguration /\ [][NextProbe]_vars

\* ============================================================ properties
\* the rules as the specification states them
RulePORT(v) ==
    /\ v.set
    /\ Len(v.val) >= 1
    /\ \A i \in 1..Len(v.val) : v.val[i] \in Digits
    /\ Number(v.val) > 0
    /\ Number(v.val) < 65536

RuleNODE_ENV(v) == v.set /\ v.val \in {<<"development">>, <<"production">>, <<"test">>}

\* 'mysql://' followed by at least one character
RuleDATABASE_URL_AnyCharacter(v) ==
    /\ v.set
    /\ StartsWith(v.val, MysqlPrefix)
    /\ Len(v.val) >= Len(MysqlPrefix) + 1

\* 'mysql://' followed by at least one character, the first of which is not
\* a line terminator
RuleDATABASE_URL(v) ==
    /\ RuleDATABASE_URL_AnyCharacter(v)
    /\ v.val[Len(MysqlPrefix) + 1] \notin {"\n", "\r"}

HasIssueFor(name) == \E i \in 1..Len(zodIssues) : zodIssues[i].path = name

ValidatorRan == pc \in {"configured", "exited", "listening"}

ValidatorContract(urlRule(_)) ==
    ValidatorRan /\ envWrites = 0 =>
        LET allPass == /\ RulePORT(processEnv.PORT)
                       /\ RuleNODE_ENV(processEnv.NODE_ENV)
                       /\ urlRule(processEnv.DATABASE_URL)
        IN /\ env.ok <=> allPass
           /\ env.ok => /\ pc # "exited"
                        /\ env.PORT \in 1..65535
                        /\ env.NODE_ENV = processEnv.NODE_ENV.val
                        /\ env.DATABASE_URL = processEnv.DATABASE_URL.val
                        /\ zodIssues = <<>>
           /\ ~env.ok => /\ pc = "exited"
                         /\ exitCode = 1
                         /\ HasIssueFor("PORT") <=> ~RulePORT(processEnv.PORT)
                         /\ HasIssueFor("NODE_ENV") <=> ~RuleNODE_ENV(processEnv.NODE_ENV)
                         /\ HasIssueFor("DATABASE_URL") <=> ~urlRule(processEnv.DATABASE_URL)

\* C1 (as amended): for every combination of PORT, NODE_ENV and DATABASE_URL
\* (absent and empty included) validateEnvironment returns the typed
\* configuration if and only if all three pass their rules, the DATABASE_URL
\* rule being 'mysql://' followed by at least one character the first of
\* which is not a line terminator; otherwise no configuration is produced
\* and the issue list has an entry for exactly the settings that fail.
Thm_C1_ValidatorContract == ValidatorContract(RuleDATABASE_URL)

\* C1 as stated: DATABASE_URL passes when 'mysql://' is followed by at least
\* one character of any kind.
Cex_C1_AnyCharacterAfterPrefix == ValidatorContract(RuleDATABASE_URL_AnyCharacter)

\* two settings fail, one passes, and the validator has reported
Wit_C1_TwoFailOnePasses ==
    /\ pc = "exited"
    /\ ~RulePORT(processEnv.PORT)
    /\ RuleNODE_ENV(processEnv.NODE_ENV)
    /\ ~RuleDATABASE_URL(processEnv.DATABASE_URL)
    /\ HasIssueFor("PORT") /\ HasIssueFor("DATABASE_URL") /\ ~HasIssueFor("NODE_ENV")

FailingSettings ==
    {n \in {"PORT", "NODE_ENV", "DATABASE_URL"} :
        \/ n = "PORT" /\ ~RulePORT(processEnv.PORT)
        \/ n = "NODE_ENV" /\ ~RuleNODE_ENV(processEnv.NODE_ENV)
        \/ n = "DATABASE_URL" /\ ~RuleDATABASE_URL(processEnv.DATABASE_URL)}

\* C2: the number of Validation Errors of one run equals the number of
\* settings that fail their rule (each invalid setting gives exactly one
\* entry).
Cex_C2_OneEntryPerInvalidSetting ==
    pc = "exited" /\ envWrites = 0 => Len(zodIssues) = Cardinality(FailingSettings)

PortAccepted == ValidatorRan /\ ~HasIssueFor("PORT")

\* C9: PORT is accepted exactly when it is a non-empty string of decimal
\* digits whose value n has 1 <= n <= 65535, and the typed output is n;
\* "0", "65536" and "abc" are rejected, "1" gives 1 and "65535" gives 65535.
Thm_C9_PortRange ==
    ValidatorRan /\ envWrites = 0 =>
        LET v == processEnv.PORT
        IN /\ PortAccepted <=> /\ v.set
                               /\ IsDigitString(v.val)
                               /\ Number(v.val) >= 1
                               /\ Number(v.val) <= 65535
           /\ env.ok => env.PORT = Number(v.val)
           /\ v \in {Str(<<"0">>), Str(<<"6", "5", "5", "3", "6">>), Str(<<"a", "b", "c">>)}
                => ~PortAccepted /\ ~env.ok
           /\ v = Str(<<"1">>) => PortAccepted /\ (env.ok => env.PORT = 1)
           /\ v = Str(<<"6", "5", "5", "3", "5">>) => PortAccepted /\ (env.ok => env.PORT = 65535)

\* PORT "65535" was accepted and the configuration holds the integer 65535
Wit_C9_Port65535 ==
    /\ processEnv.PORT = Str(<<"6", "5", "5", "3", "5">>)
    /\ env.ok
    /\ env.PORT = 65535

\* ------------------------------------------------------------- startup
AllRulesPass(e) ==
    /\ RulePORT(e.PORT)
    /\ RuleNODE_ENV(e.NODE_ENV)
    /\ RuleDATABASE_URL(e.DATABASE_URL)

Terminated == pc \in {"exited", "crashed"}

ListenOnlyWhenValid ==
    /\ listenPort # 0 => pc = "listening" /\ env.ok /\ listenPort = env.PORT
    /\ pc = "listening" => listenPort # 0
    /\ pc = "listening" /\ envWrites = 0 =>
          /\ AllRulesPass(processEnv)
          /\ listenPort = Number(processEnv.PORT.val)
    /\ Terminated => exitCode > 0 /\ listenPort = 0

ListenStep ==
    /\ listenPort = 0 /\ listenPort' # 0 =>
          /\ pc = "configured"
          /\ AllRulesPass(processEnv)
          /\ listenPort' = Number(processEnv.PORT.val)
    /\ pc = "validate" /\ ~AllRulesPass(processEnv) => pc' = "exited" /\ exitCode' = 1
    /\ ~Terminated

\* C3: the listener is opened only after validateEnvironment has returned
\* the configuration: the process never listens while a required setting is
\* missing or fails its rule (it ends with a non-zero exit status, and takes
\* no further step), and the port it listens on is the integer parsed from
\* PORT.
Thm_C3_ListenAfterValidation == []ListenOnlyWhenValid /\ [][ListenStep]_vars

\* the server listens on the port its PORT setting names
Wit_C3_Listening ==
    /\ pc = "listening"
    /\ envWrites = 0
    /\ listenPort = Number(processEnv.PORT.val)
    /\ listenPort \in {8080, 3001}

\* -------------------------------------------------------------- /health
HealthDone == {r \in RequestIds : reqs[r].route = "GET /health" /\ reqs[r].stage = "done"}

HealthBody(r) == reqs[r].sent[1].body

\* C4: GET /health answers 200 with body status "ok" if and only if both
\* sub-checks of that response are "ok", and 503 with body status "error"
\* otherwise; code and body status never disagree.
Thm_C4_HealthStatus ==
    \A r \in HealthDone :
        LET resp == reqs[r].sent[1]
            both == /\ resp.body.checks.database.status = "ok"
                    /\ resp.body.checks.configuration.status = "ok"
        IN /\ Len(reqs[r].sent) = 1
           /\ both => resp.code = 200 /\ resp.body.status = "ok"
           /\ ~both => resp.code = 503 /\ resp.body.status = "error"

\* the probe succeeded, the configuration check failed, the answer is 503
Wit_C4_ConfigurationErrorGives503 ==
    \E r \in HealthDone :
        /\ HealthBody(r).checks.database.status = "ok"
        /\ HealthBody(r).checks.configuration.status = "error"
        /\ reqs[r].sent[1].code = 503

\* C5: the configuration sub-check of a /health response is "ok" exactly
\* when validateEnvironment's schema accepts the environment the handler
\* read.
Cex_C5_SameRulesAsValidator ==
    [][\A r \in RequestIds :
          reqs[r].stage = "probe" /\ reqs'[r].stage = "done" =>
              (reqs'[r].sent[1].body.checks.configuration.status = "ok"
                  <=> envSchema(processEnv).ok)]_vars

ProbeExceptionCaught(r) ==
    reqs[r].stage = "probe" /\ reqs'[r].stage = "done" /\ reqs'[r].threw =>
        LET resp == reqs'[r].sent[1]
        IN /\ Len(reqs'[r].sent) = 1
           /\ resp.code = 503
           /\ resp.body.checks.database.status = "error"
           /\ reqs'[r].got.kind = "Error" =>
                 resp.body.checks.database.message = reqs'[r].got.message
           /\ resp.body.checks.configuration = checkConfiguration(processEnv)
           /\ ~reqs'[r].errorHandlerRan
           /\ uuids' = uuids
           /\ pc' = "listening"
           /\ exitCode' = -1

DebugFields(r) == {"version", "platform"} \cap DOMAIN HealthBody(r)

\* C10: a GET /health response has no version or platform field when the
\* runtime mode is production; the two fields appear only when the runtime
\* mode is development.
Thm_C10_NoDebugFieldsInProduction ==
    \A r \in HealthDone :
        /\ NODE_ENV = <<"production">> => DebugFields(r) = {}
        /\ DebugFields(r) # {} => NODE_ENV = <<"development">>

\* a /health response of a production server, without the debug fields
Wit_C10_ProductionResponse ==
    \E r \in HealthDone : NODE_ENV = <<"production">> /\ DebugFields(r) = {}

\* ------------------------------------------------------------ API routes
ExactlyOne500WithErrorId(r) ==
    /\ reqs[r].stage = "done"
    /\ Len(reqs[r].sent) = 1
    /\ reqs[r].sent[1].code = 500
    /\ "errorId" \in DOMAIN reqs[r].sent[1].body
    /\ reqs[r].sent[1].body.errorId # <<>>
    /\ pc = "listening"
    /\ exitCode = -1

\* C7 (as amended): an exception thrown inside a route handler other than
\* GET /health gives exactly one 500 response with a non-empty errorId, and
\* the process keeps serving.
Thm_C7_HandlerException500 ==
    \A r \in RequestIds :
        reqs[r].threw /\ reqs[r].route # "GET /health" => ExactlyOne500WithErrorId(r)

\* C7 as stated: an exception thrown inside any route handler gives exactly
\* one 500 response with a non-empty errorId.
Cex_C7_AnyRouteHandler ==
    \A r \in RequestIds : reqs[r].threw => ExactlyOne500WithErrorId(r)

\* prisma.user.create rejected and the request got its 500 with an errorId
Wit_C7_CreateFailed ==
    \E r \in RequestIds :
        /\ reqs[r].route = "POST /api/users"
        /\ reqs[r].threw
        /\ reqs[r].sent[1].code = 500
        /\ reqs[r].sent[1].body.errorId = <<"uuid", 1>>

\* the rules of the create-user body that a body violates
ViolatedBodyRules(body) ==
    IF ~body.set THEN {"body is an object"}
    ELSE {rule \in {"email is a string", "email is an email address", "name is a string",
                    "name has at least 1 character", "name has at most 100 characters"} :
            \/ rule = "email is a string" /\ ~body.val.email.set
            \/ rule = "email is an email address"
                  /\ body.val.email.set /\ ~IsEmail(body.val.email.val)
            \/ rule = "name is a string" /\ ~body.val.name.set
            \/ rule = "name has at least 1 character"
                  /\ body.val.name.set /\ Len(body.val.name.val) < 1
            \/ rule = "name has at most 100 characters"
                  /\ body.val.name.set /\ Len(body.val.name.val) > 100}

\* C8: a POST /api/users request whose body fails createUserSchema is
\* answered with 400 {error: 'Validation Error', details}, details holding
\* one {field, message} entry per violated rule, and the route handler is
\* not invoked (no ORM call).
Thm_C8_InvalidBody400 ==
    \A r \in RequestIds :
        reqs[r].route = "POST /api/users" /\ ViolatedBodyRules(reqs[r].input) # {} =>
            /\ reqs[r].stage = "done"
            /\ Len(reqs[r].sent) = 1
            /\ reqs[r].sent[1].code = 400
            /\ reqs[r].sent[1].body.error = "Validation Error"
            /\ Len(reqs[r].sent[1].body.details)
                  = Cardinality(ViolatedBodyRules(reqs[r].input))
            /\ \A i \in 1..Len(reqs[r].sent[1].body.details) :
                  DOMAIN reqs[r].sent[1].body.details[i] = {"field", "message"}
            /\ ~reqs[r].handlerRan
            /\ reqs[r].ormCalls = 0

\* a body with an invalid email and an empty name was answered with two entries
Wit_C8_TwoViolations ==
    \E r \in RequestIds :
        /\ reqs[r].route = "POST /api/users"
        /\ reqs[r].input = Body(Str(<<"nobody">>), Str(<<>>))
        /\ reqs[r].sent[1].code = 400
        /\ Len(reqs[r].sent[1].body.details) = 2

\* ------------------------------------------------ /health, error reports
HealthChecks == {"database", "configuration"}

\* C11: every sub-check of a GET /health response whose status is "error"
\* has a non-empty message, whatever the probe threw (an Error with any
\* message, or a non-Error value).
Cex_C11_FailedCheckHasMessage ==
    \A r \in HealthDone : \A c \in HealthChecks :
        HealthBody(r).checks[c].status = "error" =>
            HealthBody(r).checks[c].message # <<>>

HealthConfiguration(r) == HealthBody(r).checks.configuration

RequiredSettings == {"PORT", "NODE_ENV", "DATABASE_URL"}

AbsentOrEmpty(e) == {n \in RequiredSettings : ~e[n].set \/ e[n].val = <<>>}

\* the step in which the handler of request r reads process.env and answers
ReportsLiveEnvironment(r) ==
    reqs[r].stage = "probe" /\ reqs'[r].stage = "done" =>
        LET resp == reqs'[r].sent[1]
            conf == resp.body.checks.configuration
        IN /\ AbsentOrEmpty(processEnv) # {} => conf.status = "error" /\ resp.code = 503
           /\ AllRulesPass(processEnv) => conf.status = "ok"
           /\ AllRulesPass(processEnv) /\ reqs'[r].got.kind = "ok" => resp.code = 200

\* C12: the configuration sub-check of a GET /health response is computed
\* from process.env as it is when the request is handled, whatever the
\* startup validation decided and whatever earlier responses said: a
\* required setting that is absent or empty gives configuration "error" and
\* 503, an environment that passes every rule gives "ok" again, and two
\* requests that read the same environment report the same configuration
\* sub-check.
Thm_C12_LiveEnvironment ==
    /\ [](\A r1 \in HealthDone : \A r2 \in HealthDone :
              reqs[r1].readAt = reqs[r2].readAt =>
                  HealthConfiguration(r1) = HealthConfiguration(r2))
    /\ [][\A r \in RequestIds : ReportsLiveEnvironment(r)]_vars

\* after a successful startup a setting was removed or emptied and a
\* response reported "error" with 503; the setting was restored and a later
\* response reported "ok" with 200
Wit_C12_ErrorThenOkAfterRestore ==
    \E r1 \in HealthDone : \E r2 \in HealthDone :
        /\ reqs[r1].readAt = 1
        /\ HealthConfiguration(r1).status = "error"
        /\ Len(HealthConfiguration(r1).missing) = 1
        /\ reqs[r1].sent[1].code = 503
        /\ reqs[r2].readAt = 2
        /\ HealthConfiguration(r2).status = "ok"
        /\ reqs[r2].sent[1].code = 200
        /\ AllRulesPass(processEnv)

\* C13: every GET /health request eventually receives a response, whatever
\* the datastore does (it succeeds, throws, or does not answer the probe).
Cex_C13_HealthAlwaysAnswered ==
    \A r \in RequestIds :
        (reqs[r].route = "GET /health") ~> (reqs[r].stage = "done" /\ Len(reqs[r].sent) = 1)

\* a request whose probe the datastore answers does receive its response
HealthAnsweredWhenProbeSettles ==
    \A r \in RequestIds :
        (reqs[r].route = "GET /health" /\ ~reqs[r].silent)
            ~> (reqs[r].stage = "done" /\ Len(reqs[r].sent) = 1)

\* ------------------------------------------------------- error responses
Answered == {r \in RequestIds : reqs[r].stage = "done" /\ Len(reqs[r].sent) = 1}

Answer(r) == reqs[r].sent[1]

Answered500 == {r \in Answered : Answer(r).code = 500}

\* a body without its errorId
WithoutErrorId(body) == [f \in DOMAIN body \ {"errorId"} |-> body[f]]

\* the fields of a body that hold the message or the stack of the error
ErrorDetails(r) ==
    {f \in DOMAIN Answer(r).body \cap {"message", "stack"} :
        Answer(r).body[f] \in {reqs[r].caught.message,
                               <<"stack of: ">> \o reqs[r].caught.message}}

\* C14: every 500 response has an errorId; the message or the stack of the
\* underlying error appears in a body only when the runtime mode is not
\* production; in production the bodies of two 500 responses of the same
\* handler are the same apart from the errorId, whatever the errors were.
Thm_C14_NoErrorDetailsInProduction ==
    /\ \A r \in Answered500 :
          /\ "errorId" \in DOMAIN Answer(r).body
          /\ Answer(r).body.errorId # <<>>
          /\ reqs[r].caught # NoError
          /\ ErrorDetails(r) # {} => NODE_ENV # <<"production">>
    /\ NODE_ENV = <<"production">> =>
          \A r1 \in Answered500 : \A r2 \in Answered500 :
              reqs[r1].route = reqs[r2].route =>
                  WithoutErrorId(Answer(r1).body) = WithoutErrorId(Answer(r2).body)

\* in production two requests of one route failed with different errors and
\* got the same body apart from the errorId
Wit_C14_TwoErrorsSameBody ==
    /\ NODE_ENV = <<"production">>
    /\ \E r1 \in Answered500 : \E r2 \in Answered500 :
          /\ reqs[r1].route = reqs[r2].route
          /\ reqs[r1].caught.message # reqs[r2].caught.message
          /\ Answer(r1).body.errorId # Answer(r2).body.errorId
          /\ WithoutErrorId(Answer(r1).body) = WithoutErrorId(Answer(r2).body)

\* C15: every error response (status 400, 404, 500 or 503, from validate,
\* the 404 handler, a route handler, the global error handler or /health)
\* is an object with an `error` field.
Cex_C15_ErrorResponseHasErrorField ==
    \A r \in Answered :
        Answer(r).code \in {400, 404, 500, 503} => "error" \in DOMAIN Answer(r).body

\* C16: every 500-class response (500 from a route handler or the global
\* error handler, 503 from /health) carries an errorId.
Cex_C16_ServerErrorHasErrorId ==
    \A r \in Answered :
        Answer(r).code \in {500, 503} => "errorId" \in DOMAIN Answer(r).body

\* ------------------------------------------------- the validator's report
\* the lines of the diagnostic stream that are not empty
NonBlank(lines) == SelectSeq(lines, LAMBDA l : l.kind # "blank")

\* position of a setting in the declaration of the schema
DeclarationRank(f) == CASE f = "PORT" -> 1 [] f = "NODE_ENV" -> 2 [] f = "DATABASE_URL" -> 3

OrderedReport ==
    LET out == NonBlank(stderr)
        n == Len(zodIssues)
    IN /\ n >= 1
       /\ Len(out) = n + 3
       /\ out[1].kind = "header"
       /\ out[1].message = "Environment variable validation failed:"
       /\ \A i \in 1..n : /\ out[i + 1].kind = "issue"
                           /\ out[i + 1].field = zodIssues[i].path
                           /\ out[i + 1].message = zodIssues[i].message
       /\ \A i \in 1..n : \A j \in i..n :
              DeclarationRank(out[i + 1].field) <= DeclarationRank(out[j + 1].field)
       /\ out[n + 2].kind = "guidance"
       /\ out[n + 3].kind = "template"
       /\ out[n + 3].message = "See env.template for reference."

\* C17: when validation fails the diagnostic stream holds, in this order,
\* the header line, one "field: message" line per Validation Error with the
\* settings in declaration order (PORT, NODE_ENV, DATABASE_URL), the
\* guidance message and the pointer to the template file; the process has
\* its non-zero exit status only with all these lines emitted, and nothing
\* is emitted when validation succeeds.
Thm_C17_ReportOrder ==
    /\ exitCode # -1 => exitCode = 1 /\ pc = "exited" /\ OrderedReport
    /\ pc = "exited" => exitCode = 1
    /\ pc # "exited" => stderr = <<>>

\* all three settings failed and the report lists them in declaration order
Wit_C17_ThreeSettingsReported ==
    /\ pc = "exited"
    /\ OrderedReport
    /\ \E i \in 1..Len(zodIssues) : \E j \in i..Len(zodIssues) : \E k \in j..Len(zodIssues) :
          /\ NonBlank(stderr)[i + 1].field = "PORT"
          /\ NonBlank(stderr)[j + 1].field = "NODE_ENV"
          /\ NonBlank(stderr)[k + 1].field = "DATABASE_URL"

\* the variables neither the process environment nor the dotenv file defines
MissingAtStart ==
    {n \in RequiredSettings : ~processEnv[n].set /\ ~dotenvFile[n].set}

StartupEnded == pc \in {"crashed", "exited", "configured", "listening"}

StructuredReportOf(missing) ==
    /\ pc = "exited"
    /\ exitCode = 1
    /\ \E i \in 1..Len(stderr) : stderr[i].kind = "header"
    /\ \A n \in missing :
          \E i \in 1..Len(stderr) : stderr[i].kind = "issue" /\ stderr[i].field = n
    /\ \E i \in 1..Len(stderr) : stderr[i].kind = "template"

\* C18: when PORT, NODE_ENV or DATABASE_URL is missing at the start of the
\* process, startup ends through validateEnvironment's report: the header,
\* a "field: message" line for each missing variable and the pointer to the
\* template are emitted and the process exits with status 1; this holds
\* for a missing DATABASE_URL or NODE_ENV too.
Cex_C18_MissingVariableReported ==
    StartupEnded /\ MissingAtStart # {} => StructuredReportOf(MissingAtStart)

\* -------------------------------------------- the configuration sub-check
\* the text with which the handler reports a setting as invalid
InvalidLabel(n) ==
    CASE n = "PORT" -> "PORT (must be between 1 and 65535)"
      [] n = "NODE_ENV" -> "NODE_ENV (must be development, production, or test)"
      [] n = "DATABASE_URL" -> "DATABASE_URL (must start with mysql://)"

InvalidLabels == {InvalidLabel(n) : n \in RequiredSettings}

\* the settings a message reports as invalid
ReportedInvalid(message) ==
    {n \in RequiredSettings : \E i \in 1..Len(message) : message[i] = InvalidLabel(n)}

\* the Missing part and/or the Invalid part, joined by "; "
MessageOfParts(missing, invalid) ==
    JoinStrings((IF missing # <<>>
                 THEN << <<"Missing: ">> \o Join(missing, ", ") >> ELSE <<>>)
                \o (IF invalid # <<>>
                    THEN << <<"Invalid: ">> \o Join(invalid, ", ") >> ELSE <<>>),
                "; ")

ConfigurationReport(conf, e) ==
    /\ conf.status = "ok" => "missing" \notin DOMAIN conf
    /\ conf.status = "error" =>
          LET invalid == SelectSeq(conf.message, LAMBDA p : p \in InvalidLabels)
          IN /\ "missing" \in DOMAIN conf
             /\ {conf.missing[i] : i \in 1..Len(conf.missing)} = AbsentOrEmpty(e)
             /\ \A i \in 1..Len(conf.missing) : \A j \in 1..Len(conf.missing) :
                    i < j => DeclarationRank(conf.missing[i]) < DeclarationRank(conf.missing[j])
             /\ conf.missing # <<>> \/ invalid # <<>>
             /\ conf.message = MessageOfParts(conf.missing, invalid)
             /\ ReportedInvalid(conf.message) \cap AbsentOrEmpty(e) = {}

\* C19: when the configuration sub-check of GET /health fails, `missing`
\* lists exactly the required settings that are absent or empty, in the
\* order PORT, NODE_ENV, DATABASE_URL; `message` is the "Missing: ..." part
\* and/or the "Invalid: ..." part joined by "; "; no setting is reported
\* both as missing and as invalid; when the sub-check is "ok" there is no
\* `missing` field.
Thm_C19_ConfigurationReport ==
    \A r \in HealthDone : ConfigurationReport(HealthConfiguration(r), processEnv)

\* two settings are missing and the third is invalid: both parts are reported
Wit_C19_MissingAndInvalid ==
    \E r \in HealthDone :
        /\ HealthConfiguration(r).status = "error"
        /\ HealthConfiguration(r).missing = <<"PORT", "DATABASE_URL">>
        /\ HealthConfiguration(r).message =
              <<"Missing: ", "PORT", ", ", "DATABASE_URL", "; ", "Invalid: ",
                "NODE_ENV (must be development, production, or test)">>

\* ------------------------------------------------ the frontend validator
\* the error a VITE_PORT value calls for: required, else not a port number,
\* else out of range
PortErrorKind(v) ==
    IF ~v.set \/ v.val = <<>> THEN "required"
    ELSE IF \E i \in 1..Len(v.val) : v.val[i] \notin Digits THEN "not a port number"
    ELSE IF Number(v.val) < 1 \/ Number(v.val) > 65535 THEN "out of range"
    ELSE "none"

\* the error a VITE_API_URL value calls for: required, else not a URL, else
\* a protocol other than http or https
ApiUrlErrorKind(v) ==
    IF ~v.set \/ v.val = <<>> THEN "required"
    ELSE IF ~URL(v.val).ok THEN "not a URL"
    ELSE IF URL(v.val).protocol \notin {"http:", "https:"} THEN "protocol"
    ELSE "none"

ErrorsOf(field) == SelectSeq(vite.errors, LAMBDA x : x.field = field)

MessageKind(m) ==
    IF m[1] \in {"VITE_PORT is required", "VITE_API_URL is required"} THEN "required"
    ELSE IF m[1] = "VITE_PORT must be a valid port number" THEN "not a port number"
    ELSE IF m[1] = "VITE_PORT must be between 1 and 65535" THEN "out of range"
    ELSE IF m[1] = "VITE_API_URL must be a valid URL. Current value: " THEN "not a URL"
    ELSE IF m[1] = "VITE_API_URL must use http:// or https:// protocol" THEN "protocol"
    ELSE "other"

\* C20: the frontend validator checks VITE_PORT and VITE_API_URL
\* independently and reports both when both are invalid; each setting gives
\* at most one error (required, else not a port number, else out of
\* 1..65535; required, else not a URL, else a protocol other than http(s)),
\* VITE_PORT first; the process exits with status 1 if and only if the list
\* is not empty, and otherwise the returned VITE_PORT is an integer of
\* 1..65535.
Thm_C20_FrontendValidator ==
    vite.pc # "config" =>
        LET pk == PortErrorKind(vite.env.VITE_PORT)
            uk == ApiUrlErrorKind(vite.env.VITE_API_URL)
            pe == ErrorsOf("VITE_PORT")
            ue == ErrorsOf("VITE_API_URL")
        IN /\ vite.errors = pe \o ue
           /\ Len(pe) = (IF pk = "none" THEN 0 ELSE 1)
           /\ Len(ue) = (IF uk = "none" THEN 0 ELSE 1)
           /\ pk # "none" => MessageKind(pe[1].message) = pk
           /\ uk # "none" => MessageKind(ue[1].message) = uk
           /\ vite.exitCode = 1 <=> vite.errors # <<>>
           /\ vite.errors # <<>> => vite.pc = "exited" /\ vite.port = 0
           /\ vite.errors = <<>> =>
                 /\ vite.exitCode = -1
                 /\ vite.validated.VITE_PORT \in 1..65535
                 /\ vite.validated.VITE_PORT = Number(vite.env.VITE_PORT.val)
                 /\ vite.port = vite.validated.VITE_PORT

\* both settings are invalid and both are reported, VITE_PORT first
Wit_C20_BothReported ==
    /\ vite.pc = "exited"
    /\ vite.exitCode = 1
    /\ Len(vite.errors) = 2
    /\ vite.errors[1].field = "VITE_PORT"
    /\ MessageKind(vite.errors[1].message) = "out of range"
    /\ vite.errors[2].field = "VITE_API_URL"
    /\ MessageKind(vite.errors[2].message) = "protocol"

\* ------------------------------------------------ the validation middleware
ValidatedRoutes == {"GET /api/users", "POST /api/users", "GET /api/users/:id"}

\* the schema the route gives to validate, applied to the request's part
SchemaResult(r) ==
    IF reqs[r].route = "GET /api/users" THEN paginationSchema(reqs[r].input)
    ELSE IF reqs[r].route = "POST /api/users" THEN createUserSchema(reqs[r].input)
    ELSE userIdSchema([id |-> reqs[r].input])

Sent400(r) == \E i \in 1..Len(reqs[r].sent) : reqs[r].sent[i].code = 400

\* the fields of the handler's locals that come from the parsed part
ParsedPart(r) == [f \in DOMAIN SchemaResult(r).value |-> reqs[r].got[f]]

ValidateOutcomes(r) ==
    (IF reqs[r].handlerRan THEN {"next"} ELSE {})
    \cup (IF Sent400(r) THEN {"400"} ELSE {})
    \cup (IF reqs[r].errorHandlerRan THEN {"next(error)"} ELSE {})

\* C21: a request that passes through the validation middleware has exactly
\* one of three outcomes: the handler is invoked (the schema passed and the
\* handler sees the parsed value in place of the part), a 400 response is
\* sent (the schema is violated), or the error goes to the generic error
\* handler (an error that is not a schema violation); never two, never none.
Thm_C21_ValidateOutcome ==
    \A r \in RequestIds :
        reqs[r].route \in ValidatedRoutes =>
            /\ Cardinality(ValidateOutcomes(r)) = 1
            /\ reqs[r].handlerRan =>
                  SchemaResult(r).ok /\ ParsedPart(r) = SchemaResult(r).value
            /\ Sent400(r) <=> ~SchemaResult(r).ok
            /\ Sent400(r) => Len(reqs[r].sent) = 1 /\ reqs[r].caught = NoError
            /\ reqs[r].errorHandlerRan =>
                  reqs[r].caught.name \notin {"none", "ZodError"}

\* one request was answered 400 by the middleware, another was forwarded to
\* the generic error handler, neither reached its handler
Wit_C21_RejectedAndForwarded ==
    \E r, q \in RequestIds :
        /\ reqs[r].route = "POST /api/users" /\ ValidateOutcomes(r) = {"400"}
        /\ reqs[q].route = "GET /api/users" /\ ValidateOutcomes(q) = {"next(error)"}

\* a request passed the middleware and its handler ran on the parsed value
Wit_C21_HandlerInvoked ==
    \E r \in RequestIds :
        /\ reqs[r].route = "GET /api/users/:id"
        /\ ValidateOutcomes(r) = {"next"}
        /\ reqs[r].input = <<"0", "1">> /\ reqs[r].got.id = 1

\* ------------------------------------------------- independent requests
OthersUntouched(r) == \A q \in RequestIds \ {r} : reqs'[q] = reqs[q]

\* the steps of request r: it is accepted, and its suspended handler resumes
\* and answers from its own probe and the environment it reads then
HandledIndependently(r) ==
    /\ reqs[r].stage = "none" /\ reqs'[r].stage # "none" => OthersUntouched(r)
    /\ reqs[r].stage = "probe" /\ reqs'[r].stage = "done" =>
          /\ OthersUntouched(r)
          /\ reqs'[r].sent[1].body.checks.database = checkDatabase(reqs'[r].got)
          /\ reqs'[r].sent[1].body.checks.configuration = checkConfiguration(processEnv)

\* C22: requests are handled independently: while a GET /health request is
\* suspended on its probe other requests are accepted and answered, no step
\* of one request changes another request, and every /health response
\* carries the outcome of its own probe and of the configuration check its
\* own handler made, under every interleaving.
Thm_C22_IndependentRequests ==
    /\ [](\A r \in HealthDone :
              /\ Len(reqs[r].sent) = 1
              /\ HealthBody(r).checks.database = checkDatabase(reqs[r].got))
    /\ [][\A r \in RequestIds : HandledIndependently(r)]_vars

\* the second request was answered while the first was suspended, the first
\* later: their probes ended differently, the environment changed between
\* them, and each response carries its own probe and configuration
Wit_C22_OvertakenWhileSuspended ==
    /\ {1, 2} \subseteq HealthDone
    /\ reqs[2].readAt < reqs[1].readAt
    /\ reqs[1].got.kind = "Error" /\ HealthBody(1).checks.database.status = "error"
    /\ reqs[2].got.kind = "ok" /\ HealthBody(2).checks.database.status = "ok"
    /\ HealthConfiguration(1).status = "error"
    /\ HealthConfiguration(2).status = "ok"

\* ---------------------------------------------------------- status codes
StatusTable == {200, 201, 400, 404, 500, 503}

\* the id segment of the path is not a decimal number
MalformedId(r) ==
    \/ reqs[r].route = "GET /api/users/:id" /\ ~IsDigitString(reqs[r].input)
    \/ reqs[r].route = "router"

\* page or limit is given and is not a digits-only string
MalformedPagination(r) ==
    /\ reqs[r].route = "GET /api/users"
    /\ \E f \in {"page", "limit"} :
          reqs[r].input[f].set /\ ~IsDigitString(reqs[r].input[f].val)

\* the status table without the two cases the code answers otherwise
StatusOf(r, malformedId, ormException) ==
    reqs[r].stage = "done" =>
        LET resp == reqs[r].sent[1]
        IN /\ Len(reqs[r].sent) = 1
           /\ resp.code \in StatusTable
           /\ malformedId \/ MalformedPagination(r) => resp.code = 400
           /\ ormException => resp.code = 500
           /\ reqs[r].route = "unmatched" =>
                 resp.code = 404 /\ resp.body.path = reqs[r].input
           /\ reqs[r].route = "POST /api/users" /\ reqs[r].handlerRan /\ ~reqs[r].threw =>
                 resp.code = 201
           /\ reqs[r].route = "GET /api/users/:id" /\ reqs[r].handlerRan
                 /\ ~reqs[r].threw /\ reqs[r].got.id \notin 1..users =>
                 resp.code = 404

\* C23: every request whose datastore calls complete, on any route, gets
\* exactly one response with a status of 200, 201, 400, 404, 500, 503: a
\* malformed id or pagination parameter gives 400, a record that does not
\* exist 404, a successful create 201, an ORM exception 500, an unknown
\* route 404 with the request path.
Cex_C23_StatusTable ==
    \A r \in RequestIds : StatusOf(r, MalformedId(r), reqs[r].threw)

\* what holds instead: an id the router can decode, and an exception of a
\* CRUD handler's ORM call (the probe of GET /health answers 503)
StatusTableOfDecodedRequests ==
    \A r \in RequestIds :
        /\ StatusOf(r, MalformedId(r) /\ reqs[r].route # "router",
                       reqs[r].threw /\ reqs[r].route # "GET /health")
        /\ reqs[r].stage # "done" => reqs[r].sent = <<>>

\* ------------------------------------------------------------- ORM calls
\* C24: each CRUD handler (list, create, get by id) performs exactly one ORM
\* call for a request that passed validation, and none for a request the
\* validation middleware rejected.
Cex_C24_OneOrmCallPerRequest ==
    \A r \in RequestIds :
        reqs[r].route \in ValidatedRoutes =>
            reqs[r].ormCalls = (IF reqs[r].handlerRan THEN 1 ELSE 0)

\* what holds instead: the list handler issues two calls, findMany and count
OrmCallsPerHandler ==
    \A r \in RequestIds :
        reqs[r].route \in ValidatedRoutes =>
            reqs[r].ormCalls = (IF ~reqs[r].handlerRan THEN 0
                                ELSE IF reqs[r].route = "GET /api/users" THEN 2
                                ELSE 1)

\* ------------------------------------------------- the datastore client
NonProduction == processEnv.NODE_ENV.val # <<"production">>

\* an evaluation of lib/prisma.ts keeps every handle exported before and
\* never replaces a client cached on the global object
HandleKept ==
    /\ \A i \in 1..Len(prismaModule.exports) :
          prismaModule'.exports[i] = prismaModule.exports[i]
    /\ prismaModule.global # 0 => prismaModule'.global = prismaModule.global
    /\ \A c \in 1..Len(prismaModule.clients) :
          prismaModule'.clients[c] = prismaModule.clients[c]

\* C25: the datastore client is constructed once and reused: in a process
\* whose mode is not production, any number of evaluations of lib/prisma.ts
\* construct at most one client and every evaluation after the first
\* exports the client cached on the global object; in production mode the
\* global cache is never written; a handle is never reassigned.
Thm_C25_ClientConstructedOnce ==
    /\ [](/\ NonProduction =>
              /\ Len(prismaModule.clients) <= 1
              /\ \A i \in 1..Len(prismaModule.exports) :
                    prismaModule.exports[i] = 1 /\ prismaModule.global = 1
          /\ ~NonProduction => prismaModule.global = 0
          /\ prismaModule.exports # <<>> => pc # "crashed")
    /\ [][HandleKept]_vars

\* three evaluations in test mode: one client, exported three times
Wit_C25_ReloadedTwice ==
    /\ processEnv.NODE_ENV.val = <<"test">>
    /\ prismaModule.exports = <<1, 1, 1>>
    /\ Len(prismaModule.clients) = 1
    /\ prismaModule.global = 1

\* ------------------------------------------- the mode a response reports
\* C26: the environment field of every GET /health response, and the
\* decision to include version and platform, come from the runtime mode
\* validated at startup, not from the environment at request time: a change
\* of NODE_ENV after startup can change the configuration sub-check, never
\* the environment field or the presence of version and platform.
Thm_C26_ModeFromStartup ==
    \A r \in HealthDone :
        /\ HealthBody(r).environment = env.NODE_ENV
        /\ DebugFields(r) = (IF env.NODE_ENV = <<"development">>
                             THEN {"version", "platform"} ELSE {})

\* NODE_ENV was changed to a value the rules reject after a start in
\* development mode: the response reports a configuration error and still
\* says development, with version and platform
Wit_C26_ModeChangedAfterStartup ==
    \E r \in HealthDone :
        /\ envWrites = 1 /\ reqs[r].readAt = 1
        /\ processEnv.NODE_ENV.val = <<"staging">>
        /\ HealthConfiguration(r).status = "error"
        /\ HealthBody(r).environment = <<"development">>
        /\ DebugFields(r) = {"version", "platform"}

\* ------------------------------------------------------------ pagination
ListHandled == {r \in RequestIds : reqs[r].route = "GET /api/users" /\ reqs[r].handlerRan}

ListAnswered200 == {r \in ListHandled : reqs[r].stage = "done" /\ reqs[r].sent[1].code = 200}

\* skip and take as the claim states them
SkipAndTake(r) ==
    /\ reqs[r].got.skip = (reqs[r].got.page - 1) * reqs[r].got.limit
    /\ reqs[r].got.skip >= 0
    /\ reqs[r].got.take = reqs[r].got.limit

\* Math.ceil(total / limit) is a number other than NaN and Infinity exactly
\* when limit is not 0; it is then the least count of pages that hold total
TotalPagesCoversTotal(p) ==
    /\ p.limit # 0
    /\ p.totalPages \in Nat
    /\ (p.totalPages - 1) * p.limit < p.total
    /\ p.total <= p.totalPages * p.limit
    /\ p.total = 0 => p.totalPages = 0

\* C27: for every query the pagination schema accepts (page and limit
\* absent or digits only, defaults 1 and 10) the handler gives the ORM
\* skip = (page - 1) * limit >= 0 and take = limit, and returns totalPages,
\* a finite non-negative integer with
\* (totalPages - 1) * limit < total <= totalPages * limit.
Cex_C27_Pagination ==
    /\ \A r \in ListHandled : SkipAndTake(r)
    /\ \A r \in ListAnswered200 : TotalPagesCoversTotal(reqs[r].sent[1].body.pagination)

\* what holds instead: the same for page >= 1 and limit >= 1
PaginationOfPositiveQuery ==
    /\ \A r \in ListHandled :
          reqs[r].got.page >= 1 /\ reqs[r].got.limit >= 1 => SkipAndTake(r)
    /\ \A r \in ListAnswered200 :
          reqs[r].got.limit >= 1 =>
              TotalPagesCoversTotal(reqs[r].sent[1].body.pagination)

\* ------------------------------------------------- one datastore state
\* the users table holds rows 1..n; the response of request r is the one a
\* table of n rows gives
DescribesTableOf(r, n) ==
    /\ reqs[r].sent[1].body.pagination.total = n
    /\ reqs[r].sent[1].body.data = Page(reqs[r].got.skip, reqs[r].got.take, n)

\* C28: in a GET /api/users response pagination.total and data describe one
\* datastore state: under every interleaving with POST /api/users requests
\* there is one state of the users table, existing at some moment of the
\* list request, whose count is total and whose page (skip, take) is data.
Cex_C28_TotalAndDataAgree ==
    \A r \in ListAnswered200 : \E n \in 0..users : DescribesTableOf(r, n)

\* what holds instead: each of the two is taken from a state of the table
\* that existed, not necessarily the same one
TotalAndDataEachFromSomeState ==
    \A r \in ListAnswered200 :
        /\ reqs[r].sent[1].body.pagination.total \in 0..users
        /\ \E n \in 0..users :
              reqs[r].sent[1].body.data = Page(reqs[r].got.skip, reqs[r].got.take, n)

\* -------------------------------------------------------- ConnectionPage
NoCallInFlight ==
    page.mounted /\ \A c \in CallIds : page.calls[c].stage \in {"idle", "done"}

\* C29: once no fetchConnection call is in flight, loading is false and
\* exactly one of error and connection is non-null, so exactly one of the
\* error card and the connection-details card is shown, for every
\* interleaving and every combination of outcomes of the calls started on
\* mount.
Cex_C29_OneCardAfterLoading ==
    NoCallInFlight =>
        /\ ~page.loading
        /\ page.error.set # page.connection.set
        /\ Cardinality(Cards \cap {"error", "details"}) = 1

\* what holds instead: loading is false and at least one of the two cards is
\* shown; exactly one when the mount started a single call
AtLeastOneCardAfterLoading ==
    NoCallInFlight =>
        /\ ~page.loading
        /\ Cards \in {{"error"}, {"details"}, {"error", "details"}}
        /\ page.calls[2].stage = "idle" => Cardinality(Cards) = 1

\* ------------------------------------------------------------- the seed
CreatedBySeed == {k \in 1..Len(seed.records) : seed.records[k] # 0}

\* a run that found a record ends without a change of the table
SkipLeavesTable ==
    \A i \in SeedRuns :
        seed.runs[i].pc = "findFirst" /\ seed'.runs[i].pc = "skipped" =>
            seed.records # <<>> /\ seed'.records = seed.records

\* C30: the seed script is idempotent: a run creates a Connection record
\* only if it finds none, so after any number of runs against the same
\* datastore, one after another or overlapping, at most one record created
\* by the seed exists, and a run that finds a record leaves the table
\* unchanged.
Cex_C30_SeedIdempotent ==
    /\ [](Cardinality(CreatedBySeed) <= 1)
    /\ [][SkipLeavesTable]_vars

\* what holds instead: a run creates at most one record, only after its own
\* findFirst found none, and a run that finds a record changes nothing
SeedCreatesAfterEmptyFind ==
    /\ [](\A i \in SeedRuns :
              /\ Cardinality({k \in CreatedBySeed : seed.records[k] = i}) <= 1
              /\ seed.runs[i].pc = "skipped" => seed.records # <<>>)
    /\ [][SkipLeavesTable]_vars

====
